---- MODULE Spec2Model ----
(***************************************************************************)
(* A model of HOLFY27 AutoCheck: the CheckResult / ValidationReport data   *)
(* model of checks/base.py, the renderers of autocheck_report.py and the   *)
(* orchestrator AutoCheck.run of autocheck.py with its nine check steps.   *)
(*                                                                         *)
(* The specifications share the variables:                                 *)
(*   Spec        one run of AutoCheck.run(), step by step;                 *)
(*   SpecReport  a client of the report API that appends results to any    *)
(*               category and calls the reducer and the summary;           *)
(*   SpecRender  a client that appends, reduces and renders;               *)
(*   SpecCtor    a client that constructs results with any status string.  *)
(***************************************************************************)
EXTENDS Integers, Sequences, FiniteSets, TLC

VARIABLES
    pc,             \* position of run() ("api" under SpecReport)
    args,           \* self.args: the parsed command line
    LSF_AVAILABLE,  \* module global of autocheck.py: lsfunctions imported
    REPORT_AVAILABLE, \* module global of autocheck.py: autocheck_report imported
    sis,            \* len(self.sis): vCenter connections held
    report,         \* self.report, a ValidationReport (meaningful once hasReport)
    hasReport,      \* self.report is not None
    targets,        \* targets the producers have examined and faults of the
                    \* environment (a missing library, a raising query) met so far
    dirty,          \* history: a category list changed since the last reduction
    ret,            \* what the last call returned: an API call of a client, or the
                    \* producer called by the last step of a run
    out,            \* Spec: what run() has written (stdout, files, log, exit code)
    disconnects,    \* Spec: calls of _disconnect_vcenters so far
    reconfigs       \* Spec: ReconfigVM_Task calls issued so far

vars == <<pc, args, LSF_AVAILABLE, REPORT_AVAILABLE, sis, report, hasReport,
          targets, dirty, ret, out, disconnects, reconfigs>>

(***************************************************************************)
(* Bounds of the model.                                                    *)
(***************************************************************************)
\* results a SpecReport client appends in all
MaxResults == 2
\* targets (URLs, hosts, VMs, licenses, clusters, datastores) examined and faults
\* of the environment met by the check steps of one run, together
MaxTargets == 1
\* URLs given to check_ssl_certificates when it is called on its own
MaxUrls == 2

(***************************************************************************)
(* checks/base.py: CheckResult                                             *)
(***************************************************************************)
\* the six values the docstring of CheckResult allows for status
Statuses == {"PASS", "FAIL", "WARN", "INFO", "SKIPPED", "FIXED"}

\* status is a plain str field: the dataclass accepts any string
StatusInputs == Statuses \cup {"BOGUS"}

\* CheckResult(name, status, message, details): the generated __init__ stores the
\* four fields as given, with no validation
CheckResultD(name, status, message, details) ==
    [name |-> name, status |-> status, message |-> message, details |-> details]

\* details defaults to an empty dict
CheckResult(name, status, message) == CheckResultD(name, status, message, {})

is_pass(c) == c.status \in {"PASS", "FIXED"}

is_fail(c) == c.status = "FAIL"

is_warn(c) == c.status = "WARN"

\* to_log_line: f"{self.status}: {self.name} - {self.message}"
to_log_line(c) == c.status \o ": " \o c.name \o " - " \o c.message

result_to_dict_StatusLost(c) ==
    [name |-> c.name, status |-> "", message |-> c.message, details |-> c.details]

\* asdict: a dict of the four fields
result_to_dict(c) ==
    [name |-> c.name, status |-> c.status, message |-> c.message, details |-> c.details]

(***************************************************************************)
(* checks/base.py: ValidationReport                                        *)
(***************************************************************************)
\* the eleven list fields, in the order of their declaration
CategoryFields == <<"ssl_checks", "license_checks", "ntp_checks", "vm_config_checks",
                    "vm_resource_checks", "password_expiration_checks", "linux_checks",
                    "windows_checks", "url_checks", "vsphere_checks", "inventory_checks">>

Categories == {CategoryFields[i] : i \in 1..Len(CategoryFields)}

\* datetime.datetime.now().isoformat() at the moment __post_init__ runs
now_isoformat == "2026-02-02T08:00:00.000000"

\* ValidationReport(lab_sku, min_exp_date, max_exp_date): lists empty, PASS, and the
\* timestamp set once by __post_init__
ValidationReport(lab_sku, min_exp_date, max_exp_date) ==
    [lab_sku |-> lab_sku, timestamp |-> now_isoformat,
     min_exp_date |-> min_exp_date, max_exp_date |-> max_exp_date,
     ssl_checks |-> <<>>, license_checks |-> <<>>, ntp_checks |-> <<>>,
     vm_config_checks |-> <<>>, vm_resource_checks |-> <<>>,
     password_expiration_checks |-> <<>>, linux_checks |-> <<>>,
     windows_checks |-> <<>>, url_checks |-> <<>>, vsphere_checks |-> <<>>,
     inventory_checks |-> <<>>, overall_status |-> "PASS"]

get_all_checks(r) ==
    r.ssl_checks \o r.license_checks \o r.ntp_checks \o r.vm_config_checks \o
    r.vm_resource_checks \o r.password_expiration_checks \o r.linux_checks \o
    r.windows_checks \o r.url_checks \o r.vsphere_checks \o r.inventory_checks

\* the value calculate_overall_status computes, stores and returns
calculate_overall_status_WarnFirst(r) ==
    LET all_checks == get_all_checks(r) IN
    IF \E i \in 1..Len(all_checks) : all_checks[i].status = "WARN" THEN "WARN"
    ELSE IF \E i \in 1..Len(all_checks) : all_checks[i].status = "FAIL" THEN "FAIL"
    ELSE "PASS"

calculate_overall_status_FixedWarns(r) ==
    LET all_checks == get_all_checks(r) IN
    IF \E i \in 1..Len(all_checks) : all_checks[i].status = "FAIL" THEN "FAIL"
    ELSE IF \E i \in 1..Len(all_checks) : all_checks[i].status \in {"WARN", "FIXED"}
         THEN "WARN"
    ELSE "PASS"

calculate_overall_status(r) ==
    LET all_checks == get_all_checks(r) IN
    IF \E i \in 1..Len(all_checks) : all_checks[i].status = "FAIL" THEN "FAIL"
    ELSE IF \E i \in 1..Len(all_checks) : all_checks[i].status = "WARN" THEN "WARN"
    ELSE "PASS"

\* sum(1 for c in all_checks if c.status in wanted)
RECURSIVE CountIn(_, _)
CountIn(checks, wanted) ==
    IF checks = <<>> THEN 0
    ELSE (IF Head(checks).status \in wanted THEN 1 ELSE 0) + CountIn(Tail(checks), wanted)

get_summary_PassOnly(r) ==
    LET all_checks == get_all_checks(r) IN
    [pass |-> CountIn(all_checks, {"PASS"}),
     fail |-> CountIn(all_checks, {"FAIL"}),
     warn |-> CountIn(all_checks, {"WARN"}),
     info |-> CountIn(all_checks, {"INFO"}),
     skipped |-> CountIn(all_checks, {"SKIPPED"}),
     total |-> Len(all_checks)]

get_summary_Overlap(r) ==
    LET all_checks == get_all_checks(r) IN
    [pass |-> CountIn(all_checks, {"PASS", "FIXED"}),
     fail |-> CountIn(all_checks, {"FAIL"}),
     warn |-> CountIn(all_checks, {"WARN"}),
     info |-> CountIn(all_checks, {"INFO"}),
     skipped |-> CountIn(all_checks, {"SKIPPED", "INFO"}),
     total |-> Len(all_checks)]

get_summary(r) ==
    LET all_checks == get_all_checks(r) IN
    [pass |-> CountIn(all_checks, {"PASS", "FIXED"}),
     fail |-> CountIn(all_checks, {"FAIL"}),
     warn |-> CountIn(all_checks, {"WARN"}),
     info |-> CountIn(all_checks, {"INFO"}),
     skipped |-> CountIn(all_checks, {"SKIPPED"}),
     total |-> Len(all_checks)]

\* [c.to_dict() for c in checks]
dicts(checks) == [i \in 1..Len(checks) |-> result_to_dict(checks[i])]

to_dict_OmitsEmpty(r) ==
    [k \in {"lab_sku", "timestamp", "min_exp_date", "max_exp_date", "overall_status",
            "summary"} \cup {c \in Categories : r[c] # <<>>} |->
        IF k \in Categories THEN dicts(r[k])
        ELSE IF k = "summary" THEN get_summary(r)
        ELSE r[k]]

to_dict_Reducing(r) ==
    [lab_sku |-> r.lab_sku, timestamp |-> r.timestamp, min_exp_date |-> r.min_exp_date,
     max_exp_date |-> r.max_exp_date,
     overall_status |-> calculate_overall_status(r),
     summary |-> get_summary(r),
     ssl_checks |-> dicts(r.ssl_checks), license_checks |-> dicts(r.license_checks),
     ntp_checks |-> dicts(r.ntp_checks), vm_config_checks |-> dicts(r.vm_config_checks),
     vm_resource_checks |-> dicts(r.vm_resource_checks),
     password_expiration_checks |-> dicts(r.password_expiration_checks),
     linux_checks |-> dicts(r.linux_checks), windows_checks |-> dicts(r.windows_checks),
     url_checks |-> dicts(r.url_checks), vsphere_checks |-> dicts(r.vsphere_checks),
     inventory_checks |-> dicts(r.inventory_checks)]

\* to_dict reads the stored overall_status; it does not call the reducer
to_dict(r) ==
    [lab_sku |-> r.lab_sku, timestamp |-> r.timestamp, min_exp_date |-> r.min_exp_date,
     max_exp_date |-> r.max_exp_date,
     overall_status |-> r.overall_status,
     summary |-> get_summary(r),
     ssl_checks |-> dicts(r.ssl_checks), license_checks |-> dicts(r.license_checks),
     ntp_checks |-> dicts(r.ntp_checks), vm_config_checks |-> dicts(r.vm_config_checks),
     vm_resource_checks |-> dicts(r.vm_resource_checks),
     password_expiration_checks |-> dicts(r.password_expiration_checks),
     linux_checks |-> dicts(r.linux_checks), windows_checks |-> dicts(r.windows_checks),
     url_checks |-> dicts(r.url_checks), vsphere_checks |-> dicts(r.vsphere_checks),
     inventory_checks |-> dicts(r.inventory_checks)]

\* json.dumps(self.to_dict(), default=str): the same document as text; every value
\* of the model is a string, a number or a set of key names already
to_json(r) == to_dict(r)

get_status_class(status) ==
    CASE status = "PASS" -> "status-pass"
      [] status = "FAIL" -> "status-fail"
      [] status = "WARN" -> "status-warn"
      [] status = "INFO" -> "status-info"
      [] status = "SKIPPED" -> "status-skipped"
      [] status = "FIXED" -> "status-fixed"
      [] OTHER -> "status-unknown"

(***************************************************************************)
(* autocheck_config.py and autocheck_report.py                             *)
(***************************************************************************)
\* CHECK_CATEGORIES: (field, title) in display order
CHECK_CATEGORIES ==
    << <<"ssl_checks", "SSL Certificate Checks">>,
       <<"license_checks", "vSphere License Checks">>,
       <<"ntp_checks", "NTP Configuration">>,
       <<"vm_config_checks", "VM Configuration">>,
       <<"vm_resource_checks", "VM Resources">>,
       <<"password_expiration_checks", "Password Expiration">>,
       <<"linux_checks", "Linux Machine Checks">>,
       <<"windows_checks", "Windows Machine Checks">>,
       <<"url_checks", "URL Accessibility">>,
       <<"vsphere_checks", "vSphere Configuration">>,
       <<"inventory_checks", "Inventory & Utilization">> >>

\* one <li class="check-item"> of the HTML report
html_item(check) ==
    [name |-> check.name, message |-> check.message, status |-> check.status,
     status_class |-> get_status_class(check.status)]

RECURSIVE html_sections_All(_, _)
html_sections_All(r, i) ==
    IF i > Len(CHECK_CATEGORIES) THEN <<>>
    ELSE LET checks == r[CHECK_CATEGORIES[i][1]] IN
         << [title |-> CHECK_CATEGORIES[i][2],
             items |-> [k \in 1..Len(checks) |-> html_item(checks[k])]] >>
         \o html_sections_All(r, i + 1)

\* the categories in the order run_all_checks fills them, then the rest
FillOrder == <<1, 2, 3, 4, 9, 7, 8, 10, 6, 5, 11>>

RECURSIVE html_sections_FillOrder(_, _)
html_sections_FillOrder(r, i) ==
    IF i > Len(CHECK_CATEGORIES) THEN <<>>
    ELSE LET checks == r[CHECK_CATEGORIES[FillOrder[i]][1]] IN
         (IF checks = <<>> THEN <<>>
          ELSE << [title |-> CHECK_CATEGORIES[FillOrder[i]][2],
                   items |-> [k \in 1..Len(checks) |-> html_item(checks[k])]] >>)
         \o html_sections_FillOrder(r, i + 1)

\* the <section> elements: one per category of CHECK_CATEGORIES whose list is
\* not empty, in that order
RECURSIVE html_sections(_, _)
html_sections(r, i) ==
    IF i > Len(CHECK_CATEGORIES) THEN <<>>
    ELSE LET checks == r[CHECK_CATEGORIES[i][1]] IN
         (IF checks = <<>> THEN <<>>
          ELSE << [title |-> CHECK_CATEGORIES[i][2],
                   items |-> [k \in 1..Len(checks) |-> html_item(checks[k])]] >>)
         \o html_sections(r, i + 1)

\* generate_html_content: the banner follows the stored overall_status
generate_html_content(r) ==
    [banner_class |-> IF r.overall_status = "FAIL" THEN "banner-fail"
                      ELSE IF r.overall_status = "WARN" THEN "banner-warn"
                      ELSE "banner-pass",
     banner_status |-> r.overall_status,
     summary |-> get_summary(r),
     sections |-> html_sections(r, 1)]

\* '=' * 70 and '-' * 70
RECURSIVE Repeat(_, _)
Repeat(ch, n) == IF n = 0 THEN "" ELSE ch \o Repeat(ch, n - 1)

\* the lines of the text log for the categories CHECK_CATEGORIES[i..]: a rule, the
\* title, a rule, one log line per result, an empty line; nothing for an empty list
RECURSIVE text_sections(_, _)
text_sections(r, i) ==
    IF i > Len(CHECK_CATEGORIES) THEN <<>>
    ELSE LET checks == r[CHECK_CATEGORIES[i][1]] IN
         (IF checks = <<>> THEN <<>>
          ELSE <<Repeat("-", 70), CHECK_CATEGORIES[i][2], Repeat("-", 70)>> \o
               [k \in 1..Len(checks) |-> to_log_line(checks[k])] \o <<"">>)
         \o text_sections(r, i + 1)

\* generate_text_log: the lines written to the log file
generate_text_log(r) ==
    LET summary == get_summary(r) IN
    <<Repeat("=", 70),
      "AutoCheck Report: " \o r.lab_sku,
      Repeat("=", 70),
      "Generated: " \o r.timestamp,
      "Expiration Window: " \o r.min_exp_date \o " to " \o r.max_exp_date,
      "Overall Status: " \o r.overall_status,
      "",
      "Summary: " \o ToString(summary.pass) \o " passed, " \o
          ToString(summary.fail) \o " failed, " \o
          ToString(summary.warn) \o " warnings, " \o
          ToString(summary.info) \o " info, " \o
          ToString(summary.skipped) \o " skipped",
      "">> \o text_sections(r, 1) \o <<Repeat("=", 70)>>

(***************************************************************************)
(* The check producers. A producer call is modelled by an outcome          *)
(*   [raised |-> an exception left the producer, results |-> its list]     *)
(* computed from what the producer observes of its targets.                *)
(***************************************************************************)
Returned(results) == [raised |-> FALSE, results |-> results]

Raised == [raised |-> TRUE, results |-> <<>>]

\* an exception left the producer when its local list held these results
RaisedAfter(results) == [raised |-> TRUE, results |-> results]

\* all sequences over S of length at most n
SeqsUpTo(S, n) == UNION {[1..k -> S] : k \in 0..n}

\* the k-th target of a producer call
TargetName(k) == "t" \o ToString(k)

(***************************************************************************)
(* checks/ssl_checks.py                                                    *)
(***************************************************************************)
\* autocheck_config.py thresholds, in months
EXPIRATION_PASS_MONTHS == 9
EXPIRATION_WARN_MONTHS == 3

\* months_until = days_until / 30.44, compared with a threshold in months
MonthsAtLeast(days_until, months) == days_until * 100 >= months * 3044

\* is_external_host: the name contains one of the four external domains
ExternalHosts == {"www.vmware.com"}
is_external_host(hostname) == hostname \in ExternalHosts

\* what check_single_certificate meets at one host: whether the port answers
\* (tcp: "up", "down", "raises"), how the fetch ends (fetch: "cert", "timeout",
\* "gaierror", "error") and the days left on the certificate
SslObservations ==
    {[tcp |-> "down", fetch |-> "cert", days |-> 0],
     [tcp |-> "raises", fetch |-> "cert", days |-> 0],
     [tcp |-> "up", fetch |-> "timeout", days |-> 0],
     [tcp |-> "up", fetch |-> "gaierror", days |-> 0],
     [tcp |-> "up", fetch |-> "error", days |-> 0],
     [tcp |-> "up", fetch |-> "cert", days |-> 274],
     [tcp |-> "up", fetch |-> "cert", days |-> 273],
     [tcp |-> "up", fetch |-> "cert", days |-> 91]}

\* SslHost(name, port) of get_ssl_host_from_url: the port defaults to 443
get_ssl_host_from_url(url) ==
    [name |-> url.host, port |-> IF url.port = 0 THEN 443 ELSE url.port]

check_single_certificate(host, obs, lsf) ==
    LET check_name == "SSL: " \o host.name \o ":" \o ToString(host.port) IN
    IF lsf /\ obs.tcp = "raises" THEN Raised
    ELSE IF lsf /\ obs.tcp = "down" THEN
        Returned(<<CheckResultD(check_name, "WARN", "Host not reachable", {"host", "port"})>>)
    ELSE IF obs.fetch = "timeout" THEN
        Returned(<<CheckResultD(check_name, "WARN", "Connection timed out",
                                {"host", "port", "error"})>>)
    ELSE IF obs.fetch = "gaierror" THEN
        Returned(<<CheckResultD(check_name, "WARN", "DNS resolution failed",
                                {"host", "port", "error"})>>)
    ELSE IF obs.fetch = "error" THEN
        Returned(<<CheckResultD(check_name,
                                IF is_external_host(host.name) THEN "WARN" ELSE "FAIL",
                                IF is_external_host(host.name)
                                THEN "External host check failed (expected)"
                                ELSE "Could not check certificate",
                                {"host", "port", "error"})>>)
    ELSE
        LET status == IF MonthsAtLeast(obs.days, EXPIRATION_PASS_MONTHS) THEN "PASS"
                      ELSE IF MonthsAtLeast(obs.days, EXPIRATION_WARN_MONTHS) THEN "WARN"
                      ELSE IF is_external_host(host.name) THEN "WARN"
                      ELSE "FAIL"
            message == IF MonthsAtLeast(obs.days, EXPIRATION_PASS_MONTHS)
                       THEN "Certificate valid (>= 9 months)"
                       ELSE IF MonthsAtLeast(obs.days, EXPIRATION_WARN_MONTHS)
                       THEN "Certificate expires soon (< 9 months)"
                       ELSE IF is_external_host(host.name)
                       THEN "External certificate expires soon"
                       ELSE "Certificate expires critically soon (< 3 months)"
        IN Returned(<<CheckResultD(check_name, status, message,
                                   {"host", "port", "certname", "expiration",
                                    "days_to_expire", "issuer"})>>)

RECURSIVE ssl_loop_NoDedupe(_, _, _, _, _)
ssl_loop_NoDedupe(urls, i, checked_hosts, results, lsf) ==
    IF i > Len(urls) THEN Returned(results)
    ELSE LET url == urls[i]
             host == get_ssl_host_from_url(url)
         IN IF url.scheme # "https"
            THEN ssl_loop_NoDedupe(urls, i + 1, checked_hosts, results, lsf)
            ELSE IF lsf /\ url.proxy
            THEN ssl_loop_NoDedupe(urls, i + 1, checked_hosts, results, lsf)
            ELSE LET one == check_single_certificate(host, url.obs, lsf) IN
                 IF one.raised THEN RaisedAfter(results)
                 ELSE ssl_loop_NoDedupe(urls, i + 1, checked_hosts,
                                        results \o one.results, lsf)

\* the loop of check_ssl_certificates over urls[i..], with the hosts checked so far
RECURSIVE ssl_loop(_, _, _, _, _)
ssl_loop(urls, i, checked_hosts, results, lsf) ==
    IF i > Len(urls) THEN Returned(results)
    ELSE LET url == urls[i]
             host == get_ssl_host_from_url(url)
             host_key == host.name \o ":" \o ToString(host.port)
         IN IF url.scheme # "https" THEN ssl_loop(urls, i + 1, checked_hosts, results, lsf)
            ELSE IF lsf /\ url.proxy THEN ssl_loop(urls, i + 1, checked_hosts, results, lsf)
            ELSE IF host_key \in checked_hosts
                 THEN ssl_loop(urls, i + 1, checked_hosts, results, lsf)
            ELSE LET one == check_single_certificate(host, url.obs, lsf) IN
                 IF one.raised THEN RaisedAfter(results)
                 ELSE ssl_loop(urls, i + 1, checked_hosts \cup {host_key},
                               results \o one.results, lsf)

check_ssl_certificates(urls, SSL_AVAILABLE, lsf) ==
    IF ~SSL_AVAILABLE
    THEN Returned(<<CheckResult("SSL Check", "SKIPPED",
                                "OpenSSL not available - install pyOpenSSL")>>)
    ELSE ssl_loop(urls, 1, {}, <<>>, lsf)

(***************************************************************************)
(* checks/license_checks.py                                                *)
(***************************************************************************)
EVAL_LICENSE_KEY == "00000-00000-00000-00000-00000"

\* (status, message) of get_license_expiration_status
get_license_expiration_status(days_until) ==
    IF MonthsAtLeast(days_until, EXPIRATION_PASS_MONTHS)
    THEN <<"PASS", "License valid (>= 9 months)">>
    ELSE IF MonthsAtLeast(days_until, EXPIRATION_WARN_MONTHS)
    THEN <<"WARN", "License expiring soon (< 9 months)">>
    ELSE <<"FAIL", "License expiring critically soon (< 3 months)">>

\* a license: key, name, whether it has an expirationDate property and the days
\* left on it, and (for lic_mgr.licenses) whether it is in use
check_single_license(lic) ==
    LET check_name == "License: " \o lic.name IN
    IF lic.key = EVAL_LICENSE_KEY THEN
        CheckResultD(check_name, "FAIL",
                     "Evaluation license detected - requires production license",
                     {"license_key", "entity"})
    ELSE IF lic.dated THEN
        LET sm == get_license_expiration_status(lic.days) IN
        CheckResultD(check_name, sm[1], sm[2], {"license_key", "entity", "expiration"})
    ELSE IF lic.name = "NSX for vShield Endpoint" THEN
        CheckResultD(check_name, "WARN",
                     "Non-expiring license (expected for vShield Endpoint)",
                     {"license_key", "entity", "expiration"})
    ELSE
        CheckResultD(check_name, "FAIL",
                     "Non-expiring license detected - requires dated license",
                     {"license_key", "entity", "expiration"})

\* the assigned licenses of one vCenter, from assets[i] on; an asset whose
\* attributes cannot be read ends the vCenter's pass (the except of check_licenses)
RECURSIVE license_assets(_, _, _, _)
license_assets(assets, i, checked, results) ==
    IF i > Len(assets) THEN [failed |-> FALSE, checked |-> checked, results |-> results]
    ELSE IF assets[i].key = "unreadable"
         THEN [failed |-> TRUE, checked |-> checked, results |-> results]
    ELSE IF assets[i].key \in checked THEN license_assets(assets, i + 1, checked, results)
    ELSE license_assets(assets, i + 1, checked \cup {assets[i].key},
                        Append(results, check_single_license(assets[i])))

\* the licenses of lic_mgr.licenses not seen among the assigned ones
RECURSIVE license_unassigned(_, _, _, _)
license_unassigned(lics, i, checked, results) ==
    IF i > Len(lics) THEN [failed |-> FALSE, checked |-> checked, results |-> results]
    ELSE IF lics[i].key = "unreadable"
         THEN [failed |-> TRUE, checked |-> checked, results |-> results]
    ELSE IF lics[i].key \in checked THEN license_unassigned(lics, i + 1, checked, results)
    ELSE IF ~lics[i].used /\ lics[i].key # EVAL_LICENSE_KEY THEN
        license_unassigned(lics, i + 1, checked \cup {lics[i].key},
            Append(results, CheckResultD("License: " \o lics[i].name, "WARN",
                                         "Unassigned license - should be removed",
                                         {"license_key", "used"})))
    ELSE license_unassigned(lics, i + 1, checked, results)

\* check_licenses over the vCenters vcs[i..]; a vCenter is
\* [manager: "ok" | "raises" | "query_fails", assets, licenses]
RECURSIVE license_loop(_, _, _, _)
license_loop(vcs, i, checked, results) ==
    IF i > Len(vcs) THEN Returned(results)
    ELSE IF vcs[i].manager = "raises" THEN
        license_loop(vcs, i + 1, checked,
            Append(results, CheckResult("License Check", "FAIL", "Could not check licenses")))
    ELSE IF vcs[i].manager = "query_fails" THEN
        license_loop(vcs, i + 1, checked,
            Append(results, CheckResult("License Query", "FAIL",
                                        "Failed to query assigned licenses")))
    ELSE LET a == license_assets(vcs[i].assets, 1, checked, results)
             u == IF a.failed THEN a
                  ELSE license_unassigned(vcs[i].licenses, 1, a.checked, a.results)
         IN license_loop(vcs, i + 1, u.checked,
                IF u.failed
                THEN Append(u.results,
                            CheckResult("License Check", "FAIL", "Could not check licenses"))
                ELSE u.results)

check_licenses(vcs) == license_loop(vcs, 1, {}, <<>>)

LicenseObservations ==
    {[key |-> EVAL_LICENSE_KEY, name |-> "Evaluation Mode", dated |-> FALSE, days |-> 0,
      used |-> TRUE],
     [key |-> "AAAAA", name |-> "vSphere 8 Enterprise Plus", dated |-> TRUE, days |-> 274,
      used |-> TRUE],
     [key |-> "BBBBB", name |-> "vSphere 8 Enterprise Plus", dated |-> TRUE, days |-> 92,
      used |-> TRUE],
     [key |-> "CCCCC", name |-> "vCenter Server 8 Standard", dated |-> TRUE, days |-> 91,
      used |-> FALSE],
     [key |-> "DDDDD", name |-> "NSX for vShield Endpoint", dated |-> FALSE, days |-> 0,
      used |-> TRUE],
     [key |-> "EEEEE", name |-> "vSAN Enterprise", dated |-> FALSE, days |-> 0,
      used |-> FALSE],
     [key |-> "unreadable", name |-> "", dated |-> FALSE, days |-> 0, used |-> FALSE]}

(***************************************************************************)
(* checks/ntp_checks.py                                                    *)
(***************************************************************************)
\* "; ".join(issues)
RECURSIVE JoinIssues(_)
JoinIssues(issues) ==
    IF issues = <<>> THEN ""
    ELSE IF Len(issues) = 1 THEN issues[1]
    ELSE issues[1] \o "; " \o JoinIssues(Tail(issues))

\* a host: name ("ok", or reading it "raises_once" or "raises" every time) and the
\* ntp_data get_ntp_config collects (running, policy on, server set)
check_single_host_ntp(k, host) ==
    LET issues == (IF ~host.running THEN <<"NTPD not running">> ELSE <<>>) \o
                  (IF ~host.policy_on THEN <<"NTPD policy is not 'on'">> ELSE <<>>) \o
                  (IF ~host.server THEN <<"No NTP server configured">> ELSE <<>>)
    IN IF issues # <<>>
       THEN CheckResultD("NTP: " \o TargetName(k), "WARN", JoinIssues(issues),
                         {"hostname", "running", "policy", "server"})
       ELSE CheckResultD("NTP: " \o TargetName(k), "PASS", "NTP configured correctly",
                         {"hostname", "running", "policy", "server"})

RECURSIVE ntp_loop(_, _, _)
ntp_loop(hosts, i, results) ==
    IF i > Len(hosts) THEN Returned(results)
    ELSE IF hosts[i].name = "raises" THEN RaisedAfter(results)
    ELSE IF hosts[i].name = "raises_once" THEN
        ntp_loop(hosts, i + 1,
                 Append(results, CheckResult("NTP: " \o TargetName(i), "FAIL",
                                             "Failed to check NTP")))
    ELSE ntp_loop(hosts, i + 1, Append(results, check_single_host_ntp(i, hosts[i])))

check_ntp_configuration(hosts) ==
    IF hosts = <<>>
    THEN Returned(<<CheckResult("NTP Checks", "SKIPPED", "No ESXi hosts to check")>>)
    ELSE ntp_loop(hosts, 1, <<>>)

NtpObservations ==
    {[name |-> "ok", running |-> TRUE, policy_on |-> TRUE, server |-> TRUE],
     [name |-> "ok", running |-> FALSE, policy_on |-> TRUE, server |-> TRUE],
     [name |-> "ok", running |-> TRUE, policy_on |-> FALSE, server |-> FALSE],
     [name |-> "raises_once", running |-> FALSE, policy_on |-> FALSE, server |-> FALSE],
     [name |-> "raises", running |-> FALSE, policy_on |-> FALSE, server |-> FALSE]}

(***************************************************************************)
(* checks/vsphere_checks.py: VM configuration                              *)
(***************************************************************************)
\* ", ".join(fixes)
RECURSIVE JoinFixes(_)
JoinFixes(fixes) ==
    IF fixes = <<>> THEN ""
    ELSE IF Len(fixes) = 1 THEN fixes[1]
    ELSE fixes[1] \o ", " \o JoinFixes(Tail(fixes))

\* add_vm_config_extra_option: True when pyVmomi is there and ReconfigVM_Task
\* succeeds for this option on this VM
add_vm_config_extra_option(vm, option_key, PYVMOMI_AVAILABLE) ==
    PYVMOMI_AVAILABLE /\ option_key \in vm.fixable

\* a VM: system (its name matches SKIP_VM_PATTERNS), the three extra-config values
\* as "is the wanted value", guest ("", "windows", "linux") and the options whose
\* reconfiguration would succeed. The result is None for a system VM.
check_single_vm_configuration(k, vm, fix_issues, PYVMOMI_AVAILABLE) ==
    LET uuid_bad == ~vm.uuid_keep
        lock_bad == vm.guest = "windows" /\ ~vm.autolock_false
        delay_bad == vm.guest = "linux" /\ ~vm.delay_ok
        issues == (IF uuid_bad THEN <<"uuid.action is not 'keep'">> ELSE <<>>) \o
                  (IF lock_bad THEN <<"tools.guest.desktop.autolock is not 'FALSE'">>
                   ELSE <<>>) \o
                  (IF delay_bad THEN <<"keyboard.typematicMinDelay is not '2000000'">>
                   ELSE <<>>)
        fixes == (IF uuid_bad /\ fix_issues /\
                     add_vm_config_extra_option(vm, "uuid.action", PYVMOMI_AVAILABLE)
                  THEN <<"uuid.action fixed">> ELSE <<>>) \o
                 (IF lock_bad /\ fix_issues /\
                     add_vm_config_extra_option(vm, "tools.guest.desktop.autolock",
                                                PYVMOMI_AVAILABLE)
                  THEN <<"autolock fixed">> ELSE <<>>) \o
                 (IF delay_bad /\ fix_issues /\
                     add_vm_config_extra_option(vm, "keyboard.typematicMinDelay",
                                                PYVMOMI_AVAILABLE)
                  THEN <<"typematicMinDelay fixed">> ELSE <<>>)
        keys == {"vm_name", "guest_id", "uuid_action", "type_delay", "autolock"}
    IN IF vm.system THEN <<>>
       ELSE IF issues # <<>> THEN
           IF fixes # <<>> /\ fix_issues
           THEN <<CheckResultD("VM Config: " \o TargetName(k), "FIXED",
                               "Fixed: " \o JoinFixes(fixes), keys)>>
           ELSE <<CheckResultD("VM Config: " \o TargetName(k), "FAIL",
                               JoinIssues(issues), keys)>>
       ELSE <<CheckResultD("VM Config: " \o TargetName(k), "PASS",
                           "VM configuration correct", keys)>>

\* the ReconfigVM_Task calls check_single_vm_configuration issues for one VM
vm_reconfigurations(vm, fix_issues, PYVMOMI_AVAILABLE) ==
    IF vm.system \/ vm.name # "ok" \/ ~fix_issues \/ ~PYVMOMI_AVAILABLE THEN 0
    ELSE (IF ~vm.uuid_keep THEN 1 ELSE 0) +
         (IF vm.guest = "windows" /\ ~vm.autolock_false THEN 1 ELSE 0) +
         (IF vm.guest = "linux" /\ ~vm.delay_ok THEN 1 ELSE 0)

RECURSIVE vm_config_loop(_, _, _, _, _)
vm_config_loop(vms, i, results, fix_issues, PYVMOMI_AVAILABLE) ==
    IF i > Len(vms) THEN Returned(results)
    ELSE IF vms[i].name = "raises" THEN RaisedAfter(results)
    ELSE IF vms[i].name = "raises_once" THEN
        vm_config_loop(vms, i + 1,
            Append(results, CheckResult("VM Config: " \o TargetName(i), "WARN",
                                        "Could not check")),
            fix_issues, PYVMOMI_AVAILABLE)
    ELSE vm_config_loop(vms, i + 1,
            results \o check_single_vm_configuration(i, vms[i], fix_issues,
                                                     PYVMOMI_AVAILABLE),
            fix_issues, PYVMOMI_AVAILABLE)

check_vm_configuration(vms, fix_issues, PYVMOMI_AVAILABLE) ==
    IF vms = <<>>
    THEN Returned(<<CheckResult("VM Configuration", "SKIPPED", "No VMs to check")>>)
    ELSE vm_config_loop(vms, 1, <<>>, fix_issues, PYVMOMI_AVAILABLE)

VmObservations ==
    {[name |-> "ok", system |-> FALSE, uuid_keep |-> TRUE, guest |-> "linux",
      autolock_false |-> FALSE, delay_ok |-> TRUE, fixable |-> {}],
     [name |-> "ok", system |-> TRUE, uuid_keep |-> FALSE, guest |-> "",
      autolock_false |-> FALSE, delay_ok |-> FALSE, fixable |-> {}],
     [name |-> "ok", system |-> FALSE, uuid_keep |-> FALSE, guest |-> "windows",
      autolock_false |-> TRUE, delay_ok |-> FALSE, fixable |-> {"uuid.action"}],
     [name |-> "ok", system |-> FALSE, uuid_keep |-> FALSE, guest |-> "linux",
      autolock_false |-> FALSE, delay_ok |-> FALSE, fixable |-> {"uuid.action"}],
     [name |-> "ok", system |-> FALSE, uuid_keep |-> TRUE, guest |-> "windows",
      autolock_false |-> FALSE, delay_ok |-> FALSE, fixable |-> {}],
     [name |-> "raises_once", system |-> FALSE, uuid_keep |-> TRUE, guest |-> "",
      autolock_false |-> FALSE, delay_ok |-> FALSE, fixable |-> {}],
     [name |-> "raises", system |-> FALSE, uuid_keep |-> TRUE, guest |-> "",
      autolock_false |-> FALSE, delay_ok |-> FALSE, fixable |-> {}]}

(***************************************************************************)
(* checks/url_checks.py                                                    *)
(***************************************************************************)
\* an entry: [url, scheme, description, obs]; obs is what the probe meets:
\* through lsf.test_url "ok", "bad" or "raises"; through requests "ok", "bad"
\* (HTTP status not 200), "text_missing", "timeout", "conn_error" or "raises"
check_single_url(entry, REQUESTS_AVAILABLE, lsf) ==
    LET check_name == IF entry.description # "" THEN "URL: " \o entry.description
                      ELSE "URL: " \o entry.url
    IN IF ~REQUESTS_AVAILABLE
       THEN CheckResult(check_name, "SKIPPED", "requests library not available")
       ELSE IF lsf THEN
           IF entry.obs = "ok"
           THEN CheckResultD(check_name, "PASS", "Accessible",
                             {"url", "response_time", "expected_text"})
           ELSE IF entry.obs = "raises"
           THEN CheckResultD(check_name, "FAIL", "Check failed", {"url", "error"})
           ELSE CheckResultD(check_name, "FAIL",
                             "Not accessible or expected text not found",
                             {"url", "expected_text"})
       ELSE CASE entry.obs = "ok" ->
                   CheckResultD(check_name, "PASS", "Accessible",
                                {"url", "status_code", "response_time"})
              [] entry.obs = "bad" ->
                   CheckResultD(check_name, "FAIL", "HTTP status not 200",
                                {"url", "status_code", "response_time"})
              [] entry.obs = "text_missing" ->
                   CheckResultD(check_name, "FAIL", "Expected text not found",
                                {"url", "expected_text", "response_time"})
              [] entry.obs = "timeout" ->
                   CheckResultD(check_name, "FAIL", "Timeout after 15s", {"url", "error"})
              [] entry.obs = "conn_error" ->
                   CheckResultD(check_name, "FAIL",
                                "Connection refused or host unreachable", {"url", "error"})
              [] OTHER ->
                   CheckResultD(check_name, "FAIL", "Check failed", {"url", "error"})

\* an entry that is empty or a comment has url ""
RECURSIVE url_loop(_, _, _, _, _, _)
url_loop(entries, i, checked_urls, results, REQUESTS_AVAILABLE, lsf) ==
    IF i > Len(entries) THEN Returned(results)
    ELSE IF entries[i].url = ""
         THEN url_loop(entries, i + 1, checked_urls, results, REQUESTS_AVAILABLE, lsf)
    ELSE IF entries[i].url \in checked_urls
         THEN url_loop(entries, i + 1, checked_urls, results, REQUESTS_AVAILABLE, lsf)
    ELSE IF entries[i].scheme \notin {"http", "https"}
         THEN url_loop(entries, i + 1, checked_urls \cup {entries[i].url}, results,
                       REQUESTS_AVAILABLE, lsf)
    ELSE url_loop(entries, i + 1, checked_urls \cup {entries[i].url},
                  Append(results, check_single_url(entries[i], REQUESTS_AVAILABLE, lsf)),
                  REQUESTS_AVAILABLE, lsf)

check_urls(url_entries, REQUESTS_AVAILABLE, lsf) ==
    IF url_entries = <<>>
    THEN Returned(<<CheckResult("URL Checks", "SKIPPED", "No URLs to check")>>)
    ELSE url_loop(url_entries, 1, {}, <<>>, REQUESTS_AVAILABLE, lsf)

(***************************************************************************)
(* checks/linux_checks.py: SSH access                                      *)
(***************************************************************************)
\* a host: what lsf.test_ping, lsf.test_tcp_port(22) and lsf.ssh give, each
\* "ok", "no" or "raises"
check_ssh_access(k, host, lsf) ==
    LET check_name == "SSH: " \o TargetName(k) IN
    IF ~lsf THEN Returned(<<CheckResult(check_name, "SKIPPED", "lsfunctions not available")>>)
    ELSE IF host.ping = "raises" THEN Raised
    ELSE IF host.ping = "no" THEN
        Returned(<<CheckResultD(check_name, "WARN", "Host not responding to ping",
                                {"hostname"})>>)
    ELSE IF host.port22 = "raises" THEN Raised
    ELSE IF host.port22 = "no" THEN
        Returned(<<CheckResultD(check_name, "WARN", "SSH port 22 not responding",
                                {"hostname", "port"})>>)
    ELSE IF host.ssh = "raises" THEN Raised
    ELSE IF host.ssh = "ok" THEN
        Returned(<<CheckResultD(check_name, "PASS", "SSH accessible with root credentials",
                                {"hostname", "user"})>>)
    ELSE Returned(<<CheckResultD(check_name, "FAIL", "SSH authentication failed",
                                 {"hostname", "user", "error"})>>)

RECURSIVE linux_loop(_, _, _, _)
linux_loop(hosts, i, results, lsf) ==
    IF i > Len(hosts) THEN Returned(results)
    ELSE LET one == check_ssh_access(i, hosts[i], lsf) IN
         IF one.raised THEN RaisedAfter(results)
         ELSE linux_loop(hosts, i + 1, results \o one.results, lsf)

check_linux_machines(hosts, lsf) ==
    IF hosts = <<>>
    THEN Returned(<<CheckResult("Linux Checks", "SKIPPED", "No Linux hosts to check")>>)
    ELSE linux_loop(hosts, 1, <<>>, lsf)

SshObservations ==
    {[ping |-> "ok", port22 |-> "ok", ssh |-> "ok"],
     [ping |-> "ok", port22 |-> "ok", ssh |-> "no"],
     [ping |-> "ok", port22 |-> "no", ssh |-> "no"],
     [ping |-> "no", port22 |-> "no", ssh |-> "no"],
     [ping |-> "ok", port22 |-> "ok", ssh |-> "raises"]}

(***************************************************************************)
(* checks/windows_checks.py                                                *)
(***************************************************************************)
\* a host (it has an IP address, _get_windows_hosts keeps no other): what
\* lsf.test_ping and lsf.test_tcp_port(445) give ("ok", "no", "raises")
check_windows_accessibility(k, host, lsf) ==
    LET check_name == "Windows: " \o TargetName(k) IN
    IF lsf /\ host.ping = "raises" THEN Raised
    ELSE IF lsf /\ host.ping = "no" THEN
        Returned(<<CheckResultD(check_name, "WARN", "Host not responding to ping",
                                {"host", "ip"})>>)
    ELSE IF lsf /\ host.smb = "raises" THEN Raised
    ELSE IF lsf /\ host.smb = "no" THEN
        Returned(<<CheckResultD(check_name, "WARN", "SMB port 445 not responding",
                                {"host", "ip", "port"})>>)
    ELSE Returned(<<CheckResultD(check_name, "PASS",
                                 "Host accessible (ping and SMB port 445)",
                                 {"host", "ip"})>>)

\* host.activation: what slmgr /xpr prints through run_remote_command
\* ("activated", "not_activated", "unknown"), or "failed" when the command fails
check_windows_activation(k, host, PYPSEXEC_AVAILABLE) ==
    LET check_name == "Windows Activation: " \o TargetName(k) IN
    IF ~PYPSEXEC_AVAILABLE THEN CheckResult(check_name, "SKIPPED", "pypsexec not available")
    ELSE IF host.activation = "failed"
    THEN CheckResultD(check_name, "WARN", "Could not check activation", {"error"})
    ELSE IF host.activation = "activated"
    THEN CheckResultD(check_name, "PASS", "Windows is activated", {"output"})
    ELSE IF host.activation = "not_activated"
    THEN CheckResultD(check_name, "FAIL", "Windows is NOT activated", {"output"})
    ELSE CheckResultD(check_name, "WARN", "Could not determine activation status",
                      {"output"})

\* host.firewall: "on", "off", or "failed" when the command fails
check_windows_firewall(k, host, PYPSEXEC_AVAILABLE) ==
    LET check_name == "Windows Firewall: " \o TargetName(k) IN
    IF ~PYPSEXEC_AVAILABLE THEN CheckResult(check_name, "SKIPPED", "pypsexec not available")
    ELSE IF host.firewall = "failed"
    THEN CheckResultD(check_name, "WARN", "Could not check firewall", {"error"})
    ELSE IF host.firewall = "on"
    THEN CheckResultD(check_name, "FAIL", "Firewall is enabled on one or more profiles",
                      {"output"})
    ELSE CheckResultD(check_name, "PASS", "Firewall is disabled on all profiles",
                      {"output"})

RECURSIVE windows_loop(_, _, _, _, _, _)
windows_loop(hosts, i, results, PYPSEXEC_AVAILABLE, password, lsf) ==
    IF i > Len(hosts) THEN Returned(results)
    ELSE LET access == check_windows_accessibility(i, hosts[i], lsf) IN
         IF access.raised THEN RaisedAfter(results)
         ELSE IF access.results[1].status # "PASS"
         THEN windows_loop(hosts, i + 1, results \o access.results, PYPSEXEC_AVAILABLE,
                           password, lsf)
         ELSE windows_loop(hosts, i + 1,
                  results \o access.results \o
                  (IF PYPSEXEC_AVAILABLE /\ password
                   THEN <<check_windows_activation(i, hosts[i], PYPSEXEC_AVAILABLE),
                          check_windows_firewall(i, hosts[i], PYPSEXEC_AVAILABLE)>>
                   ELSE <<>>),
                  PYPSEXEC_AVAILABLE, password, lsf)

\* password: "ok" (non-empty), "empty", or "raises" when lsf.get_password raises
check_windows_machines(hosts, PYPSEXEC_AVAILABLE, password, lsf) ==
    IF hosts = <<>>
    THEN Returned(<<CheckResult("Windows Checks", "SKIPPED",
                                "No Windows machines to check")>>)
    ELSE LET results == IF ~PYPSEXEC_AVAILABLE
                        THEN <<CheckResult("Windows Checks", "WARN",
                                           "pypsexec not available - limited checks only")>>
                        ELSE <<>>
         IN IF lsf /\ password = "raises" THEN RaisedAfter(results)
            ELSE windows_loop(hosts, 1, results, PYPSEXEC_AVAILABLE,
                              lsf /\ password = "ok", lsf)

WindowsObservations ==
    {[ping |-> "ok", smb |-> "ok", activation |-> "activated", firewall |-> "off"],
     [ping |-> "ok", smb |-> "ok", activation |-> "not_activated", firewall |-> "on"],
     [ping |-> "ok", smb |-> "ok", activation |-> "failed", firewall |-> "failed"],
     [ping |-> "ok", smb |-> "no", activation |-> "unknown", firewall |-> "off"],
     [ping |-> "no", smb |-> "no", activation |-> "unknown", firewall |-> "off"],
     [ping |-> "raises", smb |-> "ok", activation |-> "unknown", firewall |-> "off"]}

(***************************************************************************)
(* checks/vsphere_checks.py: clusters, ESXi builds, datastores             *)
(***************************************************************************)
\* a cluster: drs ("off", "fullyAutomated", "partiallyAutomated", "raises"),
\* ha ("on", "off", "raises")
check_cluster_drs(k, cluster) ==
    LET check_name == "DRS: " \o TargetName(k) IN
    IF cluster.drs = "raises" THEN CheckResult(check_name, "WARN", "Could not check DRS")
    ELSE IF cluster.drs = "off"
    THEN CheckResultD(check_name, "PASS", "DRS disabled (minimizes I/O)",
                      {"cluster", "drs_enabled"})
    ELSE IF cluster.drs = "fullyAutomated"
    THEN CheckResultD(check_name, "FAIL",
                      "DRS is FullyAutomated - should be PartiallyAutomated",
                      {"cluster", "drs_behavior"})
    ELSE CheckResultD(check_name, "PASS", "DRS is " \o cluster.drs,
                      {"cluster", "drs_behavior"})

check_cluster_ha(k, cluster) ==
    LET check_name == "HA: " \o TargetName(k) IN
    IF cluster.ha = "raises" THEN CheckResult(check_name, "WARN", "Could not check HA")
    ELSE IF cluster.ha = "on"
    THEN CheckResultD(check_name, "FAIL", "HA is enabled - should be disabled for labs",
                      {"cluster", "ha_enabled"})
    ELSE CheckResultD(check_name, "PASS", "HA disabled", {"cluster", "ha_enabled"})

RECURSIVE cluster_results(_, _)
cluster_results(clusters, i) ==
    IF i > Len(clusters) THEN <<>>
    ELSE <<check_cluster_drs(i, clusters[i]), check_cluster_ha(i, clusters[i])>> \o
         cluster_results(clusters, i + 1)

\* a vCenter connection si: the views it gives (clusters, hosts, datastores) and
\* fails, the view whose creation raises ("none" when all are created)
RECURSIVE check_clusters_loop(_, _, _)
check_clusters_loop(vcs, i, results) ==
    IF i > Len(vcs) THEN results
    ELSE IF vcs[i].fails = "clusters"
    THEN check_clusters_loop(vcs, i + 1,
             Append(results, CheckResult("Cluster Checks", "WARN",
                                         "Could not check clusters")))
    ELSE check_clusters_loop(vcs, i + 1, results \o cluster_results(vcs[i].clusters, 1))

check_clusters(vcs, PYVMOMI_AVAILABLE) ==
    IF ~PYVMOMI_AVAILABLE
    THEN <<CheckResult("Cluster Checks", "SKIPPED", "pyVmomi not available")>>
    ELSE check_clusters_loop(vcs, 1, <<>>)

\* the builds dict as the sequence of its keys in insertion order; a host whose
\* product data cannot be read (build "raises") is passed over
RECURSIVE builds_of_hosts(_, _, _)
builds_of_hosts(hosts, i, builds) ==
    IF i > Len(hosts) THEN builds
    ELSE IF hosts[i].build = "raises" THEN builds_of_hosts(hosts, i + 1, builds)
    ELSE IF \E j \in 1..Len(builds) : builds[j] = hosts[i].build
    THEN builds_of_hosts(hosts, i + 1, builds)
    ELSE builds_of_hosts(hosts, i + 1, Append(builds, hosts[i].build))

RECURSIVE check_esxi_builds_loop(_, _, _, _)
check_esxi_builds_loop(vcs, i, builds, results) ==
    IF i > Len(vcs) THEN [builds |-> builds, results |-> results]
    ELSE IF vcs[i].fails = "hosts"
    THEN check_esxi_builds_loop(vcs, i + 1, builds,
             Append(results, CheckResult("ESXi Build Checks", "WARN",
                                         "Could not check ESXi builds")))
    ELSE check_esxi_builds_loop(vcs, i + 1, builds_of_hosts(vcs[i].hosts, 1, builds),
                                results)

check_esxi_builds(vcs, PYVMOMI_AVAILABLE) ==
    IF ~PYVMOMI_AVAILABLE
    THEN <<CheckResult("ESXi Build Checks", "SKIPPED", "pyVmomi not available")>>
    ELSE LET l == check_esxi_builds_loop(vcs, 1, <<>>, <<>>) IN
         IF Len(l.builds) = 0
         THEN Append(l.results, CheckResult("ESXi Builds", "SKIPPED", "No ESXi hosts found"))
         ELSE IF Len(l.builds) = 1
         THEN Append(l.results, CheckResultD("ESXi Builds", "PASS",
                                             "All hosts are running " \o l.builds[1],
                                             {"build", "hosts"}))
         ELSE Append(l.results, CheckResultD("ESXi Builds", "WARN",
                                             "Inconsistent builds", {"builds"})) \o
              [j \in 1..Len(l.builds) |->
                  CheckResultD("ESXi Build: " \o l.builds[j], "INFO", "host(s)", {"hosts"})]

\* a datastore: name and state ("ok", "full" when more than 90% is used,
\* "inaccessible", "raises" when its summary cannot be read)
RECURSIVE datastore_results(_, _, _, _)
datastore_results(dss, i, checked, results) ==
    IF i > Len(dss) THEN [checked |-> checked, results |-> results]
    ELSE IF dss[i].name \in checked THEN datastore_results(dss, i + 1, checked, results)
    ELSE LET check_name == "Datastore: " \o dss[i].name
             keys == {"name", "type", "capacity_gb", "free_gb", "used_pct"}
             one == CASE dss[i].state = "ok" ->
                            CheckResultD(check_name, "PASS", "Accessible", keys)
                      [] dss[i].state = "full" ->
                            CheckResultD(check_name, "WARN", "Accessible but full", keys)
                      [] dss[i].state = "inaccessible" ->
                            CheckResultD(check_name, "FAIL", "Datastore not accessible",
                                         {"name", "accessible"})
                      [] OTHER -> CheckResult(check_name, "WARN", "Could not check")
         IN datastore_results(dss, i + 1, checked \cup {dss[i].name},
                              Append(results, one))

RECURSIVE check_datastores_loop(_, _, _, _)
check_datastores_loop(vcs, i, checked, results) ==
    IF i > Len(vcs) THEN results
    ELSE IF vcs[i].fails = "datastores"
    THEN check_datastores_loop(vcs, i + 1, checked,
             Append(results, CheckResult("Datastore Checks", "WARN",
                                         "Could not enumerate datastores")))
    ELSE LET d == datastore_results(vcs[i].datastores, 1, checked, results)
         IN check_datastores_loop(vcs, i + 1, d.checked, d.results)

check_datastores(vcs, PYVMOMI_AVAILABLE) ==
    IF ~PYVMOMI_AVAILABLE
    THEN <<CheckResult("Datastore Checks", "SKIPPED", "pyVmomi not available")>>
    ELSE check_datastores_loop(vcs, 1, {}, <<>>)

check_vsphere_configuration(vcs, PYVMOMI_AVAILABLE) ==
    Returned(check_clusters(vcs, PYVMOMI_AVAILABLE) \o
             check_esxi_builds(vcs, PYVMOMI_AVAILABLE) \o
             check_datastores(vcs, PYVMOMI_AVAILABLE))

ClusterObservations ==
    {[drs |-> "off", ha |-> "off"], [drs |-> "fullyAutomated", ha |-> "on"],
     [drs |-> "partiallyAutomated", ha |-> "raises"], [drs |-> "raises", ha |-> "off"]}

BuildObservations ==
    {[build |-> "8.0.3 (build 1)"], [build |-> "8.0.3 (build 2)"], [build |-> "raises"]}

DatastoreObservations ==
    {[name |-> "ds1", state |-> "ok"], [name |-> "ds1", state |-> "full"],
     [name |-> "ds2", state |-> "inaccessible"], [name |-> "ds2", state |-> "raises"]}

(***************************************************************************)
(* checks/linux_checks.py: password expiration                             *)
(***************************************************************************)
\* autocheck_config.py thresholds, in days
PASSWORD_EXPIRE_PASS_DAYS == 1095
PASSWORD_EXPIRE_WARN_DAYS == 730

\* what chage gives for an account: [kind |-> "days", days |-> n] when a date was
\* parsed; every other outcome (command failed, no output, "never", unparsable
\* date, exception) gives None
get_password_expiration_days(account) ==
    IF account.kind = "days" THEN [none |-> FALSE, days |-> account.days]
    ELSE [none |-> TRUE, days |-> 0]

check_single_password_expiration_WarnBand(k, username, account) ==
    LET check_name == "Password: " \o TargetName(k) \o " (" \o username \o ")"
        d == get_password_expiration_days(account)
    IN IF d.none
       THEN CheckResultD(check_name, "PASS", "Password never expires",
                         {"hostname", "username", "expires"})
       ELSE IF d.days < 0
       THEN CheckResultD(check_name, "FAIL", "Password EXPIRED", {"hostname", "username", "days"})
       ELSE IF d.days >= PASSWORD_EXPIRE_PASS_DAYS
       THEN CheckResultD(check_name, "PASS", "Expires in " \o ToString(d.days) \o " days",
                         {"hostname", "username", "days"})
       ELSE IF d.days >= PASSWORD_EXPIRE_WARN_DAYS
       THEN CheckResultD(check_name, "WARN", "Expires in " \o ToString(d.days) \o " days",
                         {"hostname", "username", "days"})
       ELSE CheckResultD(check_name, "FAIL",
                         "Expires in " \o ToString(d.days) \o " days - TOO SOON",
                         {"hostname", "username", "days"})

\* None (never expires, or the query failed) is PASS; both thresholds give PASS
check_single_password_expiration(k, username, account) ==
    LET check_name == "Password: " \o TargetName(k) \o " (" \o username \o ")"
        d == get_password_expiration_days(account)
    IN IF d.none
       THEN CheckResultD(check_name, "PASS", "Password never expires",
                         {"hostname", "username", "expires"})
       ELSE IF d.days < 0
       THEN CheckResultD(check_name, "FAIL", "Password EXPIRED", {"hostname", "username", "days"})
       ELSE IF d.days >= PASSWORD_EXPIRE_PASS_DAYS
       THEN CheckResultD(check_name, "PASS", "Expires in " \o ToString(d.days) \o " days",
                         {"hostname", "username", "days"})
       ELSE IF d.days >= PASSWORD_EXPIRE_WARN_DAYS
       THEN CheckResultD(check_name, "PASS", "Expires in " \o ToString(d.days) \o " days",
                         {"hostname", "username", "days"})
       ELSE CheckResultD(check_name, "FAIL",
                         "Expires in " \o ToString(d.days) \o " days - TOO SOON",
                         {"hostname", "username", "days"})

\* the accounts looked at on a host of each kind
PasswordUsers(kind) ==
    CASE kind = "esxi" -> <<"root">>
      [] kind = "vcenter" -> <<"root">>
      [] kind = "nsx" -> <<"root", "admin">>
      [] kind = "sddc" -> <<"vcf", "root", "backup">>

\* hosts arrive grouped as the code visits them: ESXi, vCenter, NSX, SDDC Manager
RECURSIVE password_loop(_, _, _)
password_loop(hosts, i, results) ==
    IF i > Len(hosts) THEN results
    ELSE LET users == PasswordUsers(hosts[i].kind) IN
         password_loop(hosts, i + 1,
             results \o [u \in 1..Len(users) |->
                            check_single_password_expiration(i, users[u], hosts[i].account)])

check_password_expirations(hosts, lsf) ==
    IF ~lsf
    THEN Returned(<<CheckResult("Password Expiration Checks", "SKIPPED",
                                "lsfunctions not available")>>)
    ELSE Returned(password_loop(hosts, 1, <<>>))

PasswordDays == {-1, 0, 729, 730, 1094, 1095}

PasswordObservations ==
    {[kind |-> "query_failed", days |-> 0], [kind |-> "never", days |-> 0]} \cup
    {[kind |-> "days", days |-> d] : d \in PasswordDays}

(***************************************************************************)
(* SpecReport: a client of the ValidationReport API                        *)
(***************************************************************************)
NoArgs == [report_only |-> FALSE, json |-> FALSE, skip_vsphere |-> FALSE,
           skip_linux |-> FALSE, skip_windows |-> FALSE]

NoRet == [op |-> "none", value |-> "none"]

\* nothing written yet: stdout and the two files hold no document
NoOut == [stdout_json |-> <<>>, html_file |-> <<>>, json_file |-> <<>>,
          write_failed |-> FALSE, log_status |-> "none", exit_status |-> "none",
          ended |-> "none", exit_code |-> -1]

\* the variables of the run, untouched by the API client
RunVars == <<pc, args, LSF_AVAILABLE, REPORT_AVAILABLE, sis, hasReport, targets, out,
             disconnects, reconfigs>>

InitReport ==
    /\ pc = "api"
    /\ args = NoArgs
    /\ LSF_AVAILABLE = FALSE
    /\ REPORT_AVAILABLE = TRUE
    /\ sis = 0
    /\ report = ValidationReport("HOL-UNKNOWN", "2027-12-30", "2028-12-31")
    /\ hasReport = TRUE
    /\ targets = 0
    /\ dirty = FALSE
    /\ ret = NoRet
    /\ out = NoOut
    /\ disconnects = 0
    /\ reconfigs = 0

\* report.<category>.append(CheckResult(...)): the lists are plain Python lists
ApiAppend(cat, status) ==
    /\ pc = "api"
    /\ Len(get_all_checks(report)) < MaxResults
    /\ report' = [report EXCEPT ![cat] = Append(@, CheckResult("check", status, "message"))]
    /\ dirty' = TRUE
    /\ ret' = NoRet
    /\ UNCHANGED RunVars

ApiCalculateOverallStatus ==
    /\ pc = "api"
    /\ report' = [report EXCEPT !.overall_status = calculate_overall_status(report)]
    /\ dirty' = FALSE
    /\ ret' = [op |-> "calculate_overall_status", value |-> report'.overall_status]
    /\ UNCHANGED RunVars

ApiGetSummary ==
    /\ pc = "api"
    /\ ret' = [op |-> "get_summary", value |-> get_summary(report)]
    /\ UNCHANGED <<report, dirty>>
    /\ UNCHANGED RunVars

ApiToJson_Resorts ==
    /\ pc = "api"
    /\ report' = [c \in DOMAIN report |->
                    IF c \in Categories
                    THEN [i \in 1..Len(report[c]) |-> report[c][Len(report[c]) + 1 - i]]
                    ELSE report[c]]
    /\ ret' = [op |-> "to_json", value |-> to_json(report')]
    /\ UNCHANGED dirty
    /\ UNCHANGED RunVars

\* report.to_json(): reads the report and returns the document
ApiToJson ==
    /\ pc = "api"
    /\ ret' = [op |-> "to_json", value |-> to_json(report)]
    /\ UNCHANGED <<report, dirty>>
    /\ UNCHANGED RunVars

ApiGenerateHtmlContent ==
    /\ pc = "api"
    /\ ret' = [op |-> "generate_html_content", value |-> generate_html_content(report)]
    /\ UNCHANGED <<report, dirty>>
    /\ UNCHANGED RunVars

\* generate_text_log(report, output_path): the file holds the lines, or nothing
\* when makedirs or open raises
ApiGenerateTextLog ==
    /\ pc = "api"
    /\ \E written \in BOOLEAN :
          ret' = [op |-> "generate_text_log", written |-> written,
                  value |-> IF written THEN generate_text_log(report) ELSE <<>>]
    /\ UNCHANGED <<report, dirty>>
    /\ UNCHANGED RunVars

\* a client that builds reports of well-formed results and reduces and counts them
NextReport ==
    \/ \E cat \in Categories, status \in Statuses : ApiAppend(cat, status)
    \/ ApiCalculateOverallStatus
    \/ ApiGetSummary

SpecReport == InitReport /\ [][NextReport]_vars

\* a client that builds reports of well-formed results and renders them
NextRender ==
    \/ \E cat \in Categories, status \in Statuses : ApiAppend(cat, status)
    \/ ApiCalculateOverallStatus
    \/ ApiToJson
    \/ ApiGenerateHtmlContent

SpecRender == InitReport /\ [][NextRender]_vars

\* a client that passes any string as the status of the results it constructs
NextCtor ==
    \/ \E cat \in Categories, status \in StatusInputs : ApiAppend(cat, status)
    \/ ApiCalculateOverallStatus
    \/ ApiGetSummary

SpecCtor == InitReport /\ [][NextCtor]_vars

\* the statuses of the results the serializing client inserts
DocumentStatuses == {"PASS", "FIXED", "WARN"}

\* a client that builds reports and serializes them: the structured document, the
\* summary, the HTML report and the text log
NextDocument ==
    \/ \E cat \in Categories, status \in DocumentStatuses : ApiAppend(cat, status)
    \/ ApiToJson
    \/ ApiGetSummary
    \/ ApiGenerateHtmlContent
    \/ ApiGenerateTextLog

SpecDocument == InitReport /\ [][NextDocument]_vars

(***************************************************************************)
(* Spec: one run of AutoCheck.run() (autocheck.py)                         *)
(***************************************************************************)
\* `from checks.base import ...` at the top of autocheck.py runs checks/__init__.py,
\* which imports the seven check modules unguarded: in a run that starts, the
\* guarded imports that follow all succeed
SSL_CHECKS_AVAILABLE == TRUE
LICENSE_CHECKS_AVAILABLE == TRUE
NTP_CHECKS_AVAILABLE == TRUE
VSPHERE_CHECKS_AVAILABLE == TRUE
URL_CHECKS_AVAILABLE == TRUE
LINUX_CHECKS_AVAILABLE == TRUE
WINDOWS_CHECKS_AVAILABLE == TRUE

\* the command lines the run is started with
ArgInputs ==
    {NoArgs,
     [NoArgs EXCEPT !.report_only = TRUE],
     [NoArgs EXCEPT !.json = TRUE],
     [NoArgs EXCEPT !.skip_vsphere = TRUE],
     [NoArgs EXCEPT !.skip_linux = TRUE, !.skip_windows = TRUE],
     [report_only |-> TRUE, json |-> TRUE, skip_vsphere |-> TRUE,
      skip_linux |-> TRUE, skip_windows |-> TRUE]}

\* the URLs of config.ini as check_ssl_certificates sees them
SslUrlInputs ==
    {[scheme |-> "https", proxy |-> FALSE, host |-> "vc-01.site-a.vcf.lab", port |-> 0,
      obs |-> o] : o \in SslObservations} \cup
    {[scheme |-> "https", proxy |-> FALSE, host |-> "www.vmware.com", port |-> 0,
      obs |-> [tcp |-> "up", fetch |-> "error", days |-> 0]],
     [scheme |-> "https", proxy |-> FALSE, host |-> "www.vmware.com", port |-> 0,
      obs |-> [tcp |-> "up", fetch |-> "cert", days |-> 91]],
     [scheme |-> "https", proxy |-> TRUE, host |-> "proxied.site-a.vcf.lab", port |-> 0,
      obs |-> [tcp |-> "up", fetch |-> "cert", days |-> 274]],
     [scheme |-> "https", proxy |-> FALSE, host |-> "vc-01.site-a.vcf.lab", port |-> 443,
      obs |-> [tcp |-> "up", fetch |-> "cert", days |-> 274]],
     [scheme |-> "http", proxy |-> FALSE, host |-> "web.site-a.vcf.lab", port |-> 0,
      obs |-> [tcp |-> "up", fetch |-> "cert", days |-> 274]]}

\* the same URLs as check_urls sees them: _get_urls_from_config keeps the first
\* field of an entry, so no description reaches the producer
UrlEntryInputs ==
    {[url |-> "https://vc-01.site-a.vcf.lab", scheme |-> "https", description |-> "",
      obs |-> o] : o \in {"ok", "bad", "raises"}} \cup
    {[url |-> "ftp://files.site-a.vcf.lab", scheme |-> "ftp", description |-> "",
      obs |-> "ok"]}

\* one vCenter connection as check_licenses sees it, over at most n licenses
LicenseVcInputs(n) ==
    {[manager |-> m, assets |-> a, licenses |-> l] :
        m \in {"ok", "raises", "query_fails"},
        a \in SeqsUpTo(LicenseObservations, n), l \in SeqsUpTo(LicenseObservations, n)}

\* one vCenter connection as check_vsphere_configuration sees it, over at most n
\* clusters, hosts and datastores
VsphereVcInputs(n) ==
    {[fails |-> f, clusters |-> c, hosts |-> h, datastores |-> d] :
        f \in {"none", "clusters", "hosts", "datastores"},
        c \in SeqsUpTo(ClusterObservations, n), h \in SeqsUpTo(BuildObservations, n),
        d \in SeqsUpTo(DatastoreObservations, n)}

\* the hosts of config.ini as check_password_expirations visits them
PasswordHostInputs ==
    {[kind |-> "esxi", account |-> a] : a \in PasswordObservations} \cup
    {[kind |-> "vcenter", account |-> [kind |-> "days", days |-> 730]],
     [kind |-> "nsx", account |-> [kind |-> "days", days |-> 729]],
     [kind |-> "nsx", account |-> [kind |-> "never", days |-> 0]],
     [kind |-> "sddc", account |-> [kind |-> "days", days |-> 1095]],
     [kind |-> "sddc", account |-> [kind |-> "query_failed", days |-> 0]]}

KindRank(kind) ==
    CASE kind = "esxi" -> 1 [] kind = "vcenter" -> 2 [] kind = "nsx" -> 3 [] kind = "sddc" -> 4

PasswordHostSeqs(n) ==
    {h \in SeqsUpTo(PasswordHostInputs, n) :
        \A i \in 1..Len(h), j \in 1..Len(h) :
            i < j => KindRank(h[i].kind) <= KindRank(h[j].kind)}

\* targets the producers may still examine, and faults they may still meet
Budget == MaxTargets - targets

\* a fault of the environment counts as one
Fault(ok) == IF ok THEN 0 ELSE 1

Init ==
    /\ pc = "initialize"
    /\ args \in ArgInputs
    /\ LSF_AVAILABLE \in BOOLEAN
    /\ REPORT_AVAILABLE \in BOOLEAN
    /\ sis = 0
    /\ report = ValidationReport("", "", "")
    /\ hasReport = FALSE
    /\ targets = 0
    /\ dirty = FALSE
    /\ ret = NoRet
    /\ out = NoOut
    /\ disconnects = 0
    /\ reconfigs = 0

fix_issues_Always == TRUE

\* AutoCheck.__init__: self.fix_issues = not args.report_only
fix_issues == ~args.report_only

Initialize_ReportBeforeInit ==
    /\ pc = "initialize"
    /\ report' = IF LSF_AVAILABLE
                 THEN ValidationReport("HOL-2701", "2027-12-30", "2028-12-31")
                 ELSE ValidationReport("HOL-UNKNOWN", "2027-12-30", "2028-12-31")
    /\ hasReport' = TRUE
    /\ \/ /\ LSF_AVAILABLE
          /\ pc' = "done"
          /\ out' = [out EXCEPT !.ended = "init_failed", !.exit_code = 1]
          /\ UNCHANGED sis
       \/ /\ IF ~args.skip_vsphere /\ LSF_AVAILABLE
             THEN sis' \in {0, 1}
             ELSE sis' = 0
          /\ pc' = "ssl"
          /\ UNCHANGED out
    /\ UNCHANGED <<args, LSF_AVAILABLE, REPORT_AVAILABLE, targets, dirty, ret,
                   disconnects, reconfigs>>

Initialize_StartsAtLicense ==
    /\ pc = "initialize"
    /\ report' = ValidationReport("HOL-UNKNOWN", "2027-12-30", "2028-12-31")
    /\ hasReport' = TRUE
    /\ sis' = 0
    /\ pc' = "license"
    /\ UNCHANGED <<args, LSF_AVAILABLE, REPORT_AVAILABLE, targets, dirty, ret, out,
                   disconnects, reconfigs>>

\* initialize(): lsf.init either raises or gives the lab SKU; _connect_vcenters
\* leaves self.sis empty (no vCenters option, or the connection fails) or filled
Initialize ==
    /\ pc = "initialize"
    /\ \/ /\ LSF_AVAILABLE
          /\ pc' = "done"
          /\ out' = [out EXCEPT !.ended = "init_failed", !.exit_code = 1]
          /\ UNCHANGED <<report, hasReport, sis>>
       \/ /\ report' = IF LSF_AVAILABLE
                       THEN ValidationReport("HOL-2701", "2027-12-30", "2028-12-31")
                       ELSE ValidationReport("HOL-UNKNOWN", "2027-12-30", "2028-12-31")
          /\ hasReport' = TRUE
          /\ IF ~args.skip_vsphere /\ LSF_AVAILABLE
             THEN sis' \in {0, 1}
             ELSE sis' = 0
          /\ pc' = "ssl"
          /\ UNCHANGED out
    /\ UNCHANGED <<args, LSF_AVAILABLE, REPORT_AVAILABLE, targets, dirty, ret,
                   disconnects, reconfigs>>

extend_or_fail_Error(r, cat, label, outcome) ==
    [r EXCEPT ![cat] = IF outcome.raised
                       THEN Append(@, CheckResult(label, "ERROR", "Check failed with error"))
                       ELSE @ \o outcome.results]

extend_or_fail_AlsoResources(r, cat, label, outcome) ==
    [r EXCEPT ![cat] = IF outcome.raised
                       THEN Append(@, CheckResult(label, "FAIL", "Check failed with error"))
                       ELSE @ \o outcome.results,
              !.vm_resource_checks = IF cat = "vm_config_checks" /\ ~outcome.raised
                                     THEN @ \o outcome.results ELSE @]

extend_or_fail_KeepsPartial(r, cat, label, outcome) ==
    [r EXCEPT ![cat] = IF outcome.raised
                       THEN Append(@ \o outcome.results,
                                   CheckResult(label, "FAIL", "Check failed with error"))
                       ELSE @ \o outcome.results]

\* the try/except of a run_* method: extend the category with what the producer
\* returned, or append one FAIL when it raised
extend_or_fail(r, cat, label, outcome) ==
    [r EXCEPT ![cat] = IF outcome.raised
                       THEN Append(@, CheckResult(label, "FAIL", "Check failed with error"))
                       ELSE @ \o outcome.results]

append_skipped_AsWarn(r, cat, label, message) ==
    [r EXCEPT ![cat] = Append(@, CheckResult(label, "WARN", message))]

append_skipped_Spills(r, cat, label, message) ==
    [r EXCEPT ![cat] = Append(@, CheckResult(label, "SKIPPED", message)),
              !.inventory_checks = Append(@, CheckResult(label, "SKIPPED", message))]

\* the early return of a run_* method that appends one SKIPPED result
append_skipped(r, cat, label, message) ==
    [r EXCEPT ![cat] = Append(@, CheckResult(label, "SKIPPED", message))]

\* what the producer called by a step did, kept until the next step
Called(op, outcome) == [op |-> op, value |-> outcome]

\* a producer call: its name, what it was given and what it did
CalledWith(op, input, outcome) == [op |-> op, input |-> input, value |-> outcome]

\* what a step leaves alone
StepVars == <<args, LSF_AVAILABLE, REPORT_AVAILABLE, sis, hasReport, out, disconnects>>

run_ssl_checks ==
    /\ pc = "ssl"
    /\ \E urls \in (IF LSF_AVAILABLE THEN SeqsUpTo(SslUrlInputs, Budget) ELSE {<<>>}),
          SSL_AVAILABLE \in BOOLEAN :
          /\ report' =
               IF ~SSL_CHECKS_AVAILABLE
               THEN append_skipped(report, "ssl_checks", "SSL Checks",
                                   "SSL check module not available")
               ELSE extend_or_fail(report, "ssl_checks", "SSL Checks",
                        check_ssl_certificates(urls, SSL_AVAILABLE, LSF_AVAILABLE))
          /\ ret' = IF ~SSL_CHECKS_AVAILABLE THEN NoRet
                    ELSE Called("check_ssl_certificates",
                                check_ssl_certificates(urls, SSL_AVAILABLE, LSF_AVAILABLE))
          /\ Len(urls) + Fault(SSL_AVAILABLE) <= Budget
          /\ targets' = targets + Len(urls) + Fault(SSL_AVAILABLE)
    /\ dirty' = (dirty \/ report' # report)
    /\ pc' = "license"
    /\ UNCHANGED reconfigs
    /\ UNCHANGED StepVars

run_license_checks ==
    /\ pc = "license"
    /\ IF ~LICENSE_CHECKS_AVAILABLE
       THEN /\ report' = append_skipped(report, "license_checks", "License Checks",
                                        "License check module not available")
            /\ UNCHANGED targets
            /\ ret' = NoRet
       ELSE IF sis = 0
       THEN /\ report' = append_skipped(report, "license_checks", "License Checks",
                                        "No vCenter connections available")
            /\ UNCHANGED targets
            /\ ret' = NoRet
       ELSE \E vc \in LicenseVcInputs(Budget) :
            /\ Len(vc.assets) + Len(vc.licenses) + Fault(vc.manager = "ok") <= Budget
            /\ report' = extend_or_fail(report, "license_checks", "License Checks",
                                        check_licenses([i \in 1..sis |-> vc]))
            /\ ret' = Called("check_licenses", check_licenses([i \in 1..sis |-> vc]))
            /\ targets' = targets + Len(vc.assets) + Len(vc.licenses) +
                                  Fault(vc.manager = "ok")
    /\ dirty' = (dirty \/ report' # report)
    /\ pc' = "ntp"
    /\ UNCHANGED reconfigs
    /\ UNCHANGED StepVars

\* lsf.get_all_hosts() either raises or gives the hosts
run_ntp_checks ==
    /\ pc = "ntp"
    /\ IF ~NTP_CHECKS_AVAILABLE
       THEN /\ report' = append_skipped(report, "ntp_checks", "NTP Checks",
                                        "NTP check module not available")
            /\ UNCHANGED targets
            /\ ret' = NoRet
       ELSE IF sis = 0
       THEN /\ report' = append_skipped(report, "ntp_checks", "NTP Checks",
                                        "No vCenter connections available")
            /\ UNCHANGED targets
            /\ ret' = NoRet
       ELSE \E hosts \in (IF LSF_AVAILABLE THEN SeqsUpTo(NtpObservations, Budget)
                          ELSE {<<>>}),
               get_all_hosts \in {"ok", "raises"} :
            /\ get_all_hosts = "raises" => hosts = <<>>
            /\ Len(hosts) + Fault(get_all_hosts = "ok") <= Budget
            /\ report' = extend_or_fail(report, "ntp_checks", "NTP Checks",
                            IF LSF_AVAILABLE /\ get_all_hosts = "raises" THEN Raised
                            ELSE check_ntp_configuration(hosts))
            /\ ret' = IF LSF_AVAILABLE /\ get_all_hosts = "raises"
                      THEN Called("lsf.get_all_hosts", Raised)
                      ELSE Called("check_ntp_configuration",
                                  check_ntp_configuration(hosts))
            /\ targets' = targets + Len(hosts) + Fault(get_all_hosts = "ok")
    /\ dirty' = (dirty \/ report' # report)
    /\ pc' = "vm_config"
    /\ UNCHANGED reconfigs
    /\ UNCHANGED StepVars

RECURSIVE SumReconfigurations(_, _, _, _)
SumReconfigurations(vms, i, fix, PYVMOMI_AVAILABLE) ==
    IF i > Len(vms) \/ vms[i].name = "raises" THEN 0
    ELSE vm_reconfigurations(vms[i], fix, PYVMOMI_AVAILABLE) +
         SumReconfigurations(vms, i + 1, fix, PYVMOMI_AVAILABLE)

\* lsf.get_all_vms() either raises or gives the VMs
run_vm_config_checks ==
    /\ pc = "vm_config"
    /\ IF ~VSPHERE_CHECKS_AVAILABLE
       THEN /\ report' = append_skipped(report, "vm_config_checks", "VM Config Checks",
                                        "vSphere check module not available")
            /\ UNCHANGED <<targets, reconfigs>>
            /\ ret' = NoRet
       ELSE IF sis = 0
       THEN /\ report' = append_skipped(report, "vm_config_checks", "VM Config Checks",
                                        "No vCenter connections available")
            /\ UNCHANGED <<targets, reconfigs>>
            /\ ret' = NoRet
       ELSE \E vms \in (IF LSF_AVAILABLE THEN SeqsUpTo(VmObservations, Budget)
                        ELSE {<<>>}),
               get_all_vms \in {"ok", "raises"}, PYVMOMI_AVAILABLE \in BOOLEAN :
            /\ get_all_vms = "raises" => vms = <<>>
            /\ Len(vms) + Fault(get_all_vms = "ok") + Fault(PYVMOMI_AVAILABLE) <= Budget
            /\ report' = extend_or_fail(report, "vm_config_checks", "VM Config Checks",
                            IF LSF_AVAILABLE /\ get_all_vms = "raises" THEN Raised
                            ELSE check_vm_configuration(vms, fix_issues, PYVMOMI_AVAILABLE))
            /\ ret' = IF LSF_AVAILABLE /\ get_all_vms = "raises"
                      THEN Called("lsf.get_all_vms", Raised)
                      ELSE CalledWith("check_vm_configuration", vms,
                                      check_vm_configuration(vms, fix_issues,
                                                             PYVMOMI_AVAILABLE))
            /\ targets' = targets + Len(vms) + Fault(get_all_vms = "ok") +
                                  Fault(PYVMOMI_AVAILABLE)
            /\ reconfigs' = reconfigs +
                            SumReconfigurations(vms, 1, fix_issues, PYVMOMI_AVAILABLE)
    /\ dirty' = (dirty \/ report' # report)
    /\ pc' = "url"
    /\ UNCHANGED StepVars

run_url_checks ==
    /\ pc = "url"
    /\ \E urls \in (IF LSF_AVAILABLE THEN SeqsUpTo(UrlEntryInputs, Budget) ELSE {<<>>}),
          REQUESTS_AVAILABLE \in BOOLEAN :
          /\ report' =
               IF ~URL_CHECKS_AVAILABLE
               THEN append_skipped(report, "url_checks", "URL Checks",
                                   "URL check module not available")
               ELSE extend_or_fail(report, "url_checks", "URL Checks",
                        check_urls(urls, REQUESTS_AVAILABLE, LSF_AVAILABLE))
          /\ ret' = IF ~URL_CHECKS_AVAILABLE THEN NoRet
                    ELSE Called("check_urls",
                                check_urls(urls, REQUESTS_AVAILABLE, LSF_AVAILABLE))
          /\ Len(urls) + Fault(REQUESTS_AVAILABLE) <= Budget
          /\ targets' = targets + Len(urls) + Fault(REQUESTS_AVAILABLE)
    /\ dirty' = (dirty \/ report' # report)
    /\ pc' = "linux"
    /\ UNCHANGED reconfigs
    /\ UNCHANGED StepVars

run_linux_checks_RecordsSkip ==
    /\ pc = "linux"
    /\ IF args.skip_linux \/ ~LINUX_CHECKS_AVAILABLE
       THEN /\ report' = append_skipped(report, "linux_checks", "Linux Checks",
                                        "Linux checks skipped")
            /\ UNCHANGED targets
            /\ ret' = NoRet
       ELSE \E hosts \in (IF LSF_AVAILABLE THEN SeqsUpTo(SshObservations, Budget)
                          ELSE {<<>>}) :
            /\ report' = extend_or_fail(report, "linux_checks", "Linux Checks",
                                        check_linux_machines(hosts, LSF_AVAILABLE))
            /\ ret' = Called("check_linux_machines",
                             check_linux_machines(hosts, LSF_AVAILABLE))
            /\ targets' = targets + Len(hosts)
    /\ dirty' = (dirty \/ report' # report)
    /\ pc' = "windows"
    /\ UNCHANGED reconfigs
    /\ UNCHANGED StepVars

\* --skip-linux returns before anything is appended
run_linux_checks ==
    /\ pc = "linux"
    /\ IF args.skip_linux
       THEN /\ UNCHANGED <<report, targets>>
            /\ ret' = NoRet
       ELSE IF ~LINUX_CHECKS_AVAILABLE
       THEN /\ report' = append_skipped(report, "linux_checks", "Linux Checks",
                                        "Linux check module not available")
            /\ UNCHANGED targets
            /\ ret' = NoRet
       ELSE \E hosts \in (IF LSF_AVAILABLE THEN SeqsUpTo(SshObservations, Budget)
                          ELSE {<<>>}) :
            /\ report' = extend_or_fail(report, "linux_checks", "Linux Checks",
                                        check_linux_machines(hosts, LSF_AVAILABLE))
            /\ ret' = Called("check_linux_machines",
                             check_linux_machines(hosts, LSF_AVAILABLE))
            /\ targets' = targets + Len(hosts)
    /\ dirty' = (dirty \/ report' # report)
    /\ pc' = "windows"
    /\ UNCHANGED reconfigs
    /\ UNCHANGED StepVars

\* _get_windows_hosts gives no host without lsfunctions or vCenter connections
run_windows_checks ==
    /\ pc = "windows"
    /\ IF args.skip_windows
       THEN /\ UNCHANGED <<report, targets>>
            /\ ret' = NoRet
       ELSE IF ~WINDOWS_CHECKS_AVAILABLE
       THEN /\ report' = append_skipped(report, "windows_checks", "Windows Checks",
                                        "Windows check module not available")
            /\ UNCHANGED targets
            /\ ret' = NoRet
       ELSE \E hosts \in (IF LSF_AVAILABLE /\ sis # 0
                          THEN SeqsUpTo(WindowsObservations, Budget) ELSE {<<>>}),
               PYPSEXEC_AVAILABLE \in BOOLEAN, password \in {"ok", "empty", "raises"} :
            /\ Len(hosts) <= Budget
            /\ report' =
                 IF hosts = <<>>
                 THEN [report EXCEPT !.windows_checks =
                          Append(@, CheckResult("Windows Checks", "INFO",
                                                "No Windows machines to check"))]
                 ELSE extend_or_fail(report, "windows_checks", "Windows Checks",
                          check_windows_machines(hosts, PYPSEXEC_AVAILABLE, password,
                                                 LSF_AVAILABLE))
            /\ ret' = IF hosts = <<>> THEN NoRet
                      ELSE Called("check_windows_machines",
                                  check_windows_machines(hosts, PYPSEXEC_AVAILABLE,
                                                         password, LSF_AVAILABLE))
            /\ targets' = targets + Len(hosts)
    /\ dirty' = (dirty \/ report' # report)
    /\ pc' = "vsphere"
    /\ UNCHANGED reconfigs
    /\ UNCHANGED StepVars

run_vsphere_checks ==
    /\ pc = "vsphere"
    /\ IF args.skip_vsphere
       THEN /\ UNCHANGED <<report, targets>>
            /\ ret' = NoRet
       ELSE IF ~VSPHERE_CHECKS_AVAILABLE
       THEN /\ report' = append_skipped(report, "vsphere_checks", "vSphere Checks",
                                        "vSphere check module not available")
            /\ UNCHANGED targets
            /\ ret' = NoRet
       ELSE IF sis = 0
       THEN /\ report' = append_skipped(report, "vsphere_checks", "vSphere Checks",
                                        "No vCenter connections available")
            /\ UNCHANGED targets
            /\ ret' = NoRet
       ELSE \E vc \in VsphereVcInputs(Budget), PYVMOMI_AVAILABLE \in BOOLEAN :
            /\ Len(vc.clusters) + Len(vc.hosts) + Len(vc.datastores) +
               Fault(vc.fails = "none") + Fault(PYVMOMI_AVAILABLE) <= Budget
            /\ report' = extend_or_fail(report, "vsphere_checks", "vSphere Checks",
                            check_vsphere_configuration([i \in 1..sis |-> vc],
                                                        PYVMOMI_AVAILABLE))
            /\ ret' = Called("check_vsphere_configuration",
                             check_vsphere_configuration([i \in 1..sis |-> vc],
                                                         PYVMOMI_AVAILABLE))
            /\ targets' = targets + Len(vc.clusters) + Len(vc.hosts) +
                                  Len(vc.datastores) + Fault(vc.fails = "none") +
                                  Fault(PYVMOMI_AVAILABLE)
    /\ dirty' = (dirty \/ report' # report)
    /\ pc' = "password"
    /\ UNCHANGED reconfigs
    /\ UNCHANGED StepVars

run_password_checks ==
    /\ pc = "password"
    /\ IF ~LINUX_CHECKS_AVAILABLE
       THEN /\ report' = append_skipped(report, "password_expiration_checks",
                                        "Password Checks",
                                        "Linux check module not available")
            /\ UNCHANGED targets
            /\ ret' = NoRet
       ELSE \E hosts \in (IF LSF_AVAILABLE THEN PasswordHostSeqs(Budget) ELSE {<<>>}) :
            /\ report' = extend_or_fail(report, "password_expiration_checks",
                                        "Password Checks",
                                        check_password_expirations(hosts, LSF_AVAILABLE))
            /\ ret' = Called("check_password_expirations",
                             check_password_expirations(hosts, LSF_AVAILABLE))
            /\ targets' = targets + Len(hosts)
    /\ dirty' = (dirty \/ report' # report)
    /\ pc' = "generate"
    /\ UNCHANGED reconfigs
    /\ UNCHANGED StepVars

\* ValidationReport.calculate_overall_status as a method: it stores what it returns
store_overall_status(r) == [r EXCEPT !.overall_status = calculate_overall_status(r)]

generate_reports_finalize_Skipped(r) == r

generate_reports_finalize_Reorders(r) ==
    [c \in DOMAIN r |->
        IF c \in Categories
        THEN [i \in 1..Len(r[c]) |-> r[c][Len(r[c]) + 1 - i]]
        ELSE IF c = "overall_status" THEN calculate_overall_status(r)
        ELSE r[c]]

\* the first statement of generate_reports: the report the rest of it reads
generate_reports_finalize(r) == store_overall_status(r)

\* generate_reports(): the reduction, the JSON on stdout when --json is given (a
\* failing print propagates), then the report files, whose failures are logged
GenerateReports ==
    /\ pc = "generate"
    /\ report' = generate_reports_finalize(report)
    /\ dirty' = FALSE
    /\ \E stdout_ok \in BOOLEAN, html_ok \in BOOLEAN, json_ok \in BOOLEAN :
          /\ ~args.json => stdout_ok
          /\ (stdout_ok /\ REPORT_AVAILABLE) \/ html_ok
          /\ (stdout_ok /\ (~REPORT_AVAILABLE \/ html_ok)) \/ json_ok
          /\ IF args.json /\ ~stdout_ok
             THEN /\ out' = [out EXCEPT !.ended = "raised"]
                  /\ pc' = "finally"
             ELSE /\ out' = [out EXCEPT
                       !.stdout_json = IF args.json THEN <<to_json(report')>> ELSE @,
                       !.html_file = IF REPORT_AVAILABLE /\ html_ok
                                     THEN <<generate_html_content(report')>> ELSE @,
                       !.json_file = IF (~REPORT_AVAILABLE \/ html_ok) /\ json_ok
                                     THEN <<to_json(report')>> ELSE @,
                       !.write_failed = IF REPORT_AVAILABLE THEN ~html_ok \/ ~json_ok
                                        ELSE ~json_ok]
                  /\ pc' = "summary"
    /\ UNCHANGED <<args, LSF_AVAILABLE, REPORT_AVAILABLE, sis, hasReport, targets, ret,
                   disconnects, reconfigs>>

exit_code_WarnFails(r) == IF r.overall_status \in {"FAIL", "WARN"} THEN 1 ELSE 0

\* return 0 if self.report.overall_status != 'FAIL' else 1
exit_code(r) == IF r.overall_status # "FAIL" THEN 0 ELSE 1

\* the tail of run(): the summary, the final log line and the return value
Summary ==
    /\ pc = "summary"
    /\ out' = [out EXCEPT !.log_status = report.overall_status,
                          !.exit_status = report.overall_status,
                          !.exit_code = exit_code(report)]
    /\ ret' = [op |-> "get_summary", value |-> get_summary(report)]
    /\ pc' = "finally"
    /\ UNCHANGED <<args, LSF_AVAILABLE, REPORT_AVAILABLE, sis, report, hasReport, targets,
                   dirty, disconnects, reconfigs>>

Finally_NoDisconnect ==
    /\ pc = "finally"
    /\ out' = IF out.ended = "raised" THEN [out EXCEPT !.exit_code = 1]
              ELSE [out EXCEPT !.ended = "returned"]
    /\ pc' = "done"
    /\ UNCHANGED <<args, LSF_AVAILABLE, REPORT_AVAILABLE, sis, report, hasReport, targets,
                   dirty, ret, disconnects, reconfigs>>

\* the finally clause of run(), then the process exit: an exception that left
\* run() ends the interpreter with exit code 1
Finally ==
    /\ pc = "finally"
    /\ disconnects' = disconnects + 1
    /\ out' = IF out.ended = "raised" THEN [out EXCEPT !.exit_code = 1]
              ELSE [out EXCEPT !.ended = "returned"]
    /\ pc' = "done"
    /\ UNCHANGED <<args, LSF_AVAILABLE, REPORT_AVAILABLE, sis, report, hasReport, targets,
                   dirty, ret, reconfigs>>

Next ==
    \/ Initialize
    \/ run_ssl_checks
    \/ run_license_checks
    \/ run_ntp_checks
    \/ run_vm_config_checks
    \/ run_url_checks
    \/ run_linux_checks
    \/ run_windows_checks
    \/ run_vsphere_checks
    \/ run_password_checks
    \/ GenerateReports
    \/ Summary
    \/ Finally

Spec == Init /\ [][Next]_vars

(***************************************************************************)
(* Properties. The definitions below state what is claimed of the program; *)
(* they count results by position, independently of get_all_checks.        *)
(***************************************************************************)
\* the positions <<category, index>> of the results a report holds
Held(r) == UNION {{<<cat, i>> : i \in 1..Len(r[cat])} : cat \in Categories}

\* the positions of the results whose status is in S
HeldWith(r, S) == {p \in Held(r) : r[p[1]][p[2]].status \in S}

\* the worst status held: FAIL over WARN over PASS
Worst(r) ==
    IF HeldWith(r, {"FAIL"}) # {} THEN "FAIL"
    ELSE IF HeldWith(r, {"WARN"}) # {} THEN "WARN"
    ELSE "PASS"

Neutral == {"INFO", "SKIPPED", "FIXED"}

\* C1: whatever the eleven lists hold (nothing included), calculate_overall_status
\* returns and stores FAIL iff a FAIL result is held, otherwise WARN iff a WARN
\* result is held, otherwise PASS.
C1_ReducerPrecedence ==
    /\ calculate_overall_status(report) = Worst(report)
    /\ Held(report) = {} => calculate_overall_status(report) = "PASS"
    /\ ret.op = "calculate_overall_status" =>
          /\ ret.value = Worst(report)
          /\ report.overall_status = Worst(report)

\* the reducer has returned FAIL for a report holding both a FAIL and a WARN
C1_Witness ==
    /\ ret.op = "calculate_overall_status"
    /\ ret.value = "FAIL"
    /\ HeldWith(report, {"WARN"}) # {}
    /\ HeldWith(report, {"FAIL"}) # {}

\* a step that appends one result of status INFO, SKIPPED or FIXED to a category
NeutralAppend ==
    \E cat \in Categories :
        /\ Len(report'[cat]) = Len(report[cat]) + 1
        /\ report'[cat][Len(report'[cat])].status \in Neutral
        /\ SubSeq(report'[cat], 1, Len(report[cat])) = report[cat]
        /\ \A other \in Categories \ {cat} : report'[other] = report[other]

\* C2: appending a result of status INFO, SKIPPED or FIXED to any category never
\* changes what calculate_overall_status returns (so no number of such appends
\* does), and a report that holds only such results reduces to PASS.
C2_NeutralStatuses ==
    /\ [][NeutralAppend =>
            calculate_overall_status(report') = calculate_overall_status(report)]_vars
    /\ [](HeldWith(report, Statuses \ Neutral) = {} =>
            calculate_overall_status(report) = "PASS")

\* a FIXED result was appended after a WARN result and the reducer returned WARN
C2_Witness ==
    /\ ret.op = "calculate_overall_status"
    /\ ret.value = "WARN"
    /\ \E cat \in Categories :
          /\ Len(report[cat]) >= 2
          /\ report[cat][1].status = "WARN"
          /\ report[cat][2].status = "FIXED"

\* the run is past generate_reports with a report
Finalized == hasReport /\ pc \in {"summary", "finally", "done"} /\ out.ended # "raised"

\* C3: in a run, the reduction is made after the last append and before any read:
\* past generate_reports the stored overall_status is the reduction of the lists,
\* and the value in the JSON on stdout, in the HTML banner, in the JSON file, in
\* the final log line and behind the exit code is that reduction.
C3_ReduceBeforeRead ==
    /\ Finalized => (~dirty /\ report.overall_status = Worst(report))
    /\ \A i \in 1..Len(out.stdout_json) :
          out.stdout_json[i].overall_status = Worst(report)
    /\ \A i \in 1..Len(out.html_file) : out.html_file[i].banner_status = Worst(report)
    /\ \A i \in 1..Len(out.json_file) : out.json_file[i].overall_status = Worst(report)
    /\ out.log_status # "none" => out.log_status = Worst(report)
    /\ out.exit_status # "none" => out.exit_status = Worst(report)

\* a run has ended whose files, log line and exit code carry FAIL, not the default
C3_Witness ==
    /\ pc = "done"
    /\ out.ended = "returned"
    /\ out.html_file # <<>> /\ out.html_file[1].banner_status = "FAIL"
    /\ out.json_file # <<>> /\ out.json_file[1].overall_status = "FAIL"
    /\ out.log_status = "FAIL"
    /\ out.exit_code = 1

\* C4 as stated: whatever the report state, the overall_status that to_dict/to_json
\* write and the banner generate_html_content shows equal the reduction of the
\* current lists, even without a call of calculate_overall_status since the last
\* append.
C4_RenderReduces ==
    /\ ret.op = "to_json" => ret.value.overall_status = Worst(report)
    /\ ret.op = "generate_html_content" => ret.value.banner_status = Worst(report)

\* C4: to_dict/to_json and generate_html_content write the stored overall_status
\* and do not reduce; what they write is the reduction of the current lists when
\* calculate_overall_status was called since the last append.
C4_RenderReadsStored ==
    /\ ret.op = "to_json" =>
          /\ ret.value.overall_status = report.overall_status
          /\ ~dirty => ret.value.overall_status = Worst(report)
    /\ ret.op = "generate_html_content" =>
          /\ ret.value.banner_status = report.overall_status
          /\ ~dirty => ret.value.banner_status = Worst(report)

\* to_json wrote the default PASS for a report that holds a FAIL: no reduction
\* was made since the appends
C4_Witness ==
    /\ ret.op = "to_json"
    /\ dirty
    /\ ret.value.overall_status = "PASS"
    /\ Worst(report) = "FAIL"

\* C5: get_summary counts exactly: total is the number of results held, pass the
\* number with status PASS or FIXED, and fail, warn, info and skipped the numbers
\* with status FAIL, WARN, INFO and SKIPPED.
C5_SummaryCounts ==
    LET exact == [pass |-> Cardinality(HeldWith(report, {"PASS"})) +
                           Cardinality(HeldWith(report, {"FIXED"})),
                  fail |-> Cardinality(HeldWith(report, {"FAIL"})),
                  warn |-> Cardinality(HeldWith(report, {"WARN"})),
                  info |-> Cardinality(HeldWith(report, {"INFO"})),
                  skipped |-> Cardinality(HeldWith(report, {"SKIPPED"})),
                  total |-> Cardinality(Held(report))]
    IN /\ get_summary(report) = exact
       /\ ret.op = "get_summary" => ret.value = exact

\* get_summary has counted a report that holds a PASS and a FIXED
C5_Witness ==
    /\ ret.op = "get_summary"
    /\ ret.value.pass = 2
    /\ HeldWith(report, {"PASS"}) # {}
    /\ HeldWith(report, {"FIXED"}) # {}

\* C6: for every report of a run, the five buckets of the summary add up to its
\* total.
C6_BucketsSumToTotal ==
    LET s == get_summary(report) IN
    /\ hasReport => s.pass + s.fail + s.warn + s.info + s.skipped = s.total
    /\ ret.op = "get_summary" =>
          ret.value.pass + ret.value.fail + ret.value.warn + ret.value.info +
          ret.value.skipped = ret.value.total

\* a run has printed a summary with results in the pass, warn, info and skipped
\* buckets
C6_Witness ==
    /\ pc = "done"
    /\ ret.op = "get_summary"
    /\ ret.value.pass > 0 /\ ret.value.warn > 0
    /\ ret.value.info > 0 /\ ret.value.skipped > 0

\* C7: in every state of a run, every result in every category list has one of
\* the six statuses, whichever producer branch or orchestrator fallback made it.
C7_RunStatusesInEnum ==
    \A cat \in Categories : \A i \in 1..Len(report[cat]) :
        report[cat][i].status \in Statuses

\* a run has ended with a result made by a producer, one made by the FAIL
\* fallback of a step and one made by an early return of a step
C7_Witness ==
    /\ pc = "done"
    /\ \E cat \in Categories : \E i \in 1..Len(report[cat]) :
          report[cat][i].message = "Check failed with error"
    /\ HeldWith(report, {"SKIPPED"}) # {}
    /\ HeldWith(report, {"INFO"}) # {}

\* C8: no CheckResult whose status is outside the six values can exist or be
\* inserted into a report.
C8_NoResultOutsideEnum == HeldWith(report, StatusInputs \ Statuses) = {}

\* the run returned from run()
Returned_run == pc = "done" /\ out.ended = "returned"

\* C9: a run that reaches its end after a successful initialization exits non-zero
\* iff overall_status is FAIL, that is iff a FAIL result is held; a run whose worst
\* result is WARN, or that holds no FAIL and no WARN, exits with zero.
C9_ExitCode ==
    Returned_run =>
        /\ out.exit_code # 0 <=> report.overall_status = "FAIL"
        /\ out.exit_code # 0 <=> HeldWith(report, {"FAIL"}) # {}
        /\ Worst(report) \in {"WARN", "PASS"} => out.exit_code = 0

\* a run whose worst result is WARN has returned, with exit code zero
C9_Witness ==
    /\ Returned_run
    /\ report.overall_status = "WARN"
    /\ HeldWith(report, {"WARN"}) # {}
    /\ out.exit_code = 0

\* C10: a run in which finalizing or rendering the report failed (printing the JSON
\* or writing the HTML or JSON file raised) ends with a non-zero exit code.
C10_RenderFailureExitsNonZero ==
    (pc = "done" /\ (out.write_failed \/ out.ended = "raised")) => out.exit_code # 0

\* ---------------------------------------------------------------------------
\* The steps of a run and their category lists

\* the category list each step of run_all_checks writes
StepCategory ==
    [ssl |-> "ssl_checks", license |-> "license_checks", ntp |-> "ntp_checks",
     vm_config |-> "vm_config_checks", url |-> "url_checks", linux |-> "linux_checks",
     windows |-> "windows_checks", vsphere |-> "vsphere_checks",
     password |-> "password_expiration_checks"]

\* the order in which run_all_checks calls the steps
StepAfter ==
    [ssl |-> "license", license |-> "ntp", ntp |-> "vm_config", vm_config |-> "url",
     url |-> "linux", linux |-> "windows", windows |-> "vsphere", vsphere |-> "password",
     password |-> "generate"]

\* this transition is a step of the run
IsStep == pc \in DOMAIN StepCategory /\ pc' # pc

\* this transition is a step whose producer raised
ProducerRaised == IsStep /\ ret'.op # "none" /\ ret'.value.raised

\* C11: when the producer a step calls raises, the step appends exactly one FAIL
\* result to its own category, records none of the results the producer had
\* computed before it raised, and the run goes on with the next step.
C11_RaiseAppendsOneFail ==
    [][ProducerRaised =>
          LET cat == StepCategory[pc] IN
          /\ Len(report'[cat]) = Len(report[cat]) + 1
          /\ SubSeq(report'[cat], 1, Len(report[cat])) = report[cat]
          /\ report'[cat][Len(report'[cat])].status = "FAIL"
          /\ \A c \in Categories \ {cat} : report'[c] = report[c]
          /\ pc' = StepAfter[pc]]_vars

\* check_windows_machines raised after it had computed a result, and the step
\* recorded only the FAIL
C11_Witness ==
    /\ pc = "vsphere"
    /\ ret.op = "check_windows_machines"
    /\ ret.value.raised
    /\ ret.value.results # <<>>
    /\ Len(report.windows_checks) = 1
    /\ report.windows_checks[1].status = "FAIL"

\* ---------------------------------------------------------------------------
\* The producers called on their own, outside a run

\* what a producer call leaves alone
CallVars == <<args, LSF_AVAILABLE, REPORT_AVAILABLE, sis, report, hasReport, targets,
              dirty, out, disconnects, reconfigs>>

InitProducers ==
    /\ pc = "call"
    /\ args = NoArgs
    /\ LSF_AVAILABLE = TRUE
    /\ REPORT_AVAILABLE = TRUE
    /\ sis = 0
    /\ report = ValidationReport("HOL-UNKNOWN", "2027-12-30", "2028-12-31")
    /\ hasReport = TRUE
    /\ targets = 0
    /\ dirty = FALSE
    /\ ret = NoRet
    /\ out = NoOut
    /\ disconnects = 0
    /\ reconfigs = 0

call_check_ssl_certificates ==
    /\ pc = "call"
    /\ \E urls \in SeqsUpTo(SslUrlInputs, MaxUrls), SSL_AVAILABLE \in BOOLEAN,
          lsf \in BOOLEAN :
          ret' = CalledWith("check_ssl_certificates",
                            [urls |-> urls, SSL_AVAILABLE |-> SSL_AVAILABLE, lsf |-> lsf],
                            check_ssl_certificates(urls, SSL_AVAILABLE, lsf))
    /\ pc' = "returned"
    /\ UNCHANGED CallVars

call_check_licenses ==
    /\ pc = "call"
    /\ \E vcs \in SeqsUpTo(LicenseVcInputs(MaxTargets), 1) :
          ret' = CalledWith("check_licenses", vcs, check_licenses(vcs))
    /\ pc' = "returned"
    /\ UNCHANGED CallVars

call_check_ntp_configuration ==
    /\ pc = "call"
    /\ \E hosts \in SeqsUpTo(NtpObservations, MaxTargets) :
          ret' = CalledWith("check_ntp_configuration", hosts,
                            check_ntp_configuration(hosts))
    /\ pc' = "returned"
    /\ UNCHANGED CallVars

call_check_vm_configuration ==
    /\ pc = "call"
    /\ \E vms \in SeqsUpTo(VmObservations, MaxTargets), fix \in BOOLEAN,
          PYVMOMI_AVAILABLE \in BOOLEAN :
          ret' = CalledWith("check_vm_configuration", vms,
                            check_vm_configuration(vms, fix, PYVMOMI_AVAILABLE))
    /\ pc' = "returned"
    /\ UNCHANGED CallVars

call_check_urls ==
    /\ pc = "call"
    /\ \E urls \in SeqsUpTo(UrlEntryInputs, MaxTargets), REQUESTS_AVAILABLE \in BOOLEAN,
          lsf \in BOOLEAN :
          ret' = CalledWith("check_urls", urls,
                            check_urls(urls, REQUESTS_AVAILABLE, lsf))
    /\ pc' = "returned"
    /\ UNCHANGED CallVars

call_check_linux_machines ==
    /\ pc = "call"
    /\ \E hosts \in SeqsUpTo(SshObservations, MaxTargets), lsf \in BOOLEAN :
          ret' = CalledWith("check_linux_machines", hosts,
                            check_linux_machines(hosts, lsf))
    /\ pc' = "returned"
    /\ UNCHANGED CallVars

call_check_windows_machines ==
    /\ pc = "call"
    /\ \E hosts \in SeqsUpTo(WindowsObservations, MaxTargets),
          PYPSEXEC_AVAILABLE \in BOOLEAN, password \in {"ok", "empty", "raises"},
          lsf \in BOOLEAN :
          ret' = CalledWith("check_windows_machines", hosts,
                            check_windows_machines(hosts, PYPSEXEC_AVAILABLE, password,
                                                   lsf))
    /\ pc' = "returned"
    /\ UNCHANGED CallVars

call_check_vsphere_configuration ==
    /\ pc = "call"
    /\ \E vcs \in SeqsUpTo(VsphereVcInputs(MaxTargets), 1),
          PYVMOMI_AVAILABLE \in BOOLEAN :
          ret' = CalledWith("check_vsphere_configuration", vcs,
                            check_vsphere_configuration(vcs, PYVMOMI_AVAILABLE))
    /\ pc' = "returned"
    /\ UNCHANGED CallVars

call_check_password_expirations ==
    /\ pc = "call"
    /\ \E hosts \in PasswordHostSeqs(MaxTargets), lsf \in BOOLEAN :
          ret' = CalledWith("check_password_expirations", hosts,
                            check_password_expirations(hosts, lsf))
    /\ pc' = "returned"
    /\ UNCHANGED CallVars

NextProducers ==
    \/ call_check_ssl_certificates
    \/ call_check_licenses
    \/ call_check_ntp_configuration
    \/ call_check_vm_configuration
    \/ call_check_urls
    \/ call_check_linux_machines
    \/ call_check_windows_machines
    \/ call_check_vsphere_configuration
    \/ call_check_password_expirations

SpecProducers == InitProducers /\ [][NextProducers]_vars

\* C12: no producer raises when a call to its executor or to a remote target
\* fails; every producer call returns its list of results.
C12_ProducersNeverRaise == ret.op # "none" => ~ret.value.raised

\* the results check_password_expirations records for the accounts of host k
PasswordResultsOf(results, k, kind) ==
    {j \in 1..Len(results) :
        \E u \in 1..Len(PasswordUsers(kind)) :
            results[j].name = "Password: " \o TargetName(k) \o " (" \o
                              PasswordUsers(kind)[u] \o ")"}

\* C13: when the remote password-expiration query for an account fails,
\* check_password_expirations records FAIL or WARN for it, never PASS.
C13_FailedQueryNeverPasses ==
    ret.op = "check_password_expirations" =>
        \A k \in 1..Len(ret.input) :
            ret.input[k].account.kind = "query_failed" =>
                \A j \in PasswordResultsOf(ret.value.results, k, ret.input[k].kind) :
                    ret.value.results[j].status \in {"FAIL", "WARN"}

\* the scalar fields of the report
ScalarFields == {"lab_sku", "min_exp_date", "max_exp_date", "overall_status"}

IsPrefix(s, t) == Len(s) <= Len(t) /\ SubSeq(t, 1, Len(s)) = s

\* C15: the category lists only grow at their end during a run: each list is a
\* prefix of what it is after any transition, so a result once inserted is
\* never removed, reordered or altered.
C15_AppendOnly ==
    [][hasReport => \A c \in Categories : IsPrefix(report[c], report'[c])]_vars

\* the run ended with a category of two results in the order they were produced
C15_Witness ==
    /\ pc = "done"
    /\ \E c \in Categories :
          /\ Len(report[c]) >= 2
          /\ report[c][1] # report[c][2]

\* ---------------------------------------------------------------------------
\* The documents

\* the keys of a serialized result
ResultKeys == {"name", "status", "message", "details"}

\* C16: the structured document has all eleven category keys; an empty
\* category is an empty list, and a non-empty one lists its results in
\* insertion order, each with name, status, message and details.
C16_DocumentHasAllCategories ==
    ret.op = "to_json" =>
        \A c \in Categories :
            /\ c \in DOMAIN ret.value
            /\ Len(ret.value[c]) = Len(report[c])
            /\ \A i \in 1..Len(report[c]) :
                  /\ DOMAIN ret.value[c][i] = ResultKeys
                  /\ \A k \in ResultKeys : ret.value[c][i][k] = report[c][i][k]

\* a document of a report with an empty category and a category of two
\* different results
C16_Witness ==
    /\ ret.op = "to_json"
    /\ \E c \in Categories : ret.value[c] = <<>>
    /\ \E c \in Categories :
          Len(ret.value[c]) = 2 /\ ret.value[c][1].status # ret.value[c][2].status

\* the title CHECK_CATEGORIES declares for a category
TitleOf(c) ==
    CHECK_CATEGORIES[CHOOSE i \in 1..Len(CHECK_CATEGORIES) :
                        CHECK_CATEGORIES[i][1] = c][2]

\* the sections of an HTML report that carry a title
SectionsTitled(sections, title) == {i \in 1..Len(sections) : sections[i].title = title}

\* the title lines of a text log: a title between two rules
TitleLines(lines, title) ==
    {i \in 2..(Len(lines) - 1) :
        /\ lines[i] = title
        /\ lines[i - 1] = Repeat("-", 70)
        /\ lines[i + 1] = Repeat("-", 70)}

\* the HTML report has one section for each non-empty category and none for an
\* empty one, with the results of the category in insertion order
HtmlSectionsMatch(sections, r) ==
    /\ \A i \in 1..Len(sections) : \E c \in Categories : sections[i].title = TitleOf(c)
    /\ \A c \in Categories :
          /\ Cardinality(SectionsTitled(sections, TitleOf(c))) =
                (IF r[c] = <<>> THEN 0 ELSE 1)
          /\ \A i \in SectionsTitled(sections, TitleOf(c)) :
                /\ Len(sections[i].items) = Len(r[c])
                /\ \A k \in 1..Len(r[c]) :
                      /\ sections[i].items[k].name = r[c][k].name
                      /\ sections[i].items[k].status = r[c][k].status
                      /\ sections[i].items[k].message = r[c][k].message

\* the text log has one titled section for each non-empty category and none for
\* an empty one, with one line per result of the category in insertion order
TextSectionsMatch(lines, r) ==
    \A c \in Categories :
        /\ Cardinality(TitleLines(lines, TitleOf(c))) = (IF r[c] = <<>> THEN 0 ELSE 1)
        /\ \A i \in TitleLines(lines, TitleOf(c)) :
              /\ i + 2 + Len(r[c]) <= Len(lines)
              /\ \A k \in 1..Len(r[c]) :
                    lines[i + 1 + k] =
                        r[c][k].status \o ": " \o r[c][k].name \o " - " \o r[c][k].message
              /\ lines[i + 2 + Len(r[c])] = ""

\* C17: the formatted report, HTML or text log, has a titled section for a
\* category exactly when the list of that category is not empty, and the
\* section lists exactly the results of that category in insertion order.
C17_SectionsOfNonEmptyCategories ==
    /\ ret.op = "generate_html_content" => HtmlSectionsMatch(ret.value.sections, report)
    /\ (ret.op = "generate_text_log" /\ ret.written) =>
          TextSectionsMatch(ret.value, report)

\* an HTML report of a report with an empty category and a category of two
\* different results
C17_Witness ==
    /\ ret.op = "generate_html_content"
    /\ report.ssl_checks = <<>>
    /\ \E i \in 1..Len(ret.value.sections) :
          /\ Len(ret.value.sections[i].items) = 2
          /\ ret.value.sections[i].items[1].status # ret.value.sections[i].items[2].status

\* the place of a section title in CHECK_CATEGORIES
CategoryRank(title) ==
    CHOOSE k \in 1..Len(CHECK_CATEGORIES) : CHECK_CATEGORIES[k][2] = title

\* C18: the sections of the HTML report of a run appear in the order of
\* CHECK_CATEGORIES, although the run fills url, linux, windows and vsphere
\* before password_expiration.
C18_SectionsInDeclaredOrder ==
    \A d \in 1..Len(out.html_file) :
        LET sections == out.html_file[d].sections IN
        \A i \in 1..Len(sections), j \in 1..Len(sections) :
            i < j => CategoryRank(sections[i].title) < CategoryRank(sections[j].title)

\* the HTML report of a run with a password section placed before the sections of
\* the categories filled before it
C18_Witness ==
    /\ pc = "done"
    /\ Len(out.html_file) = 1
    /\ LET sections == out.html_file[1].sections IN
       \E i \in 1..Len(sections), j \in 1..Len(sections) :
          /\ i < j
          /\ sections[i].title = "Password Expiration"
          /\ sections[j].title \in {"Linux Machine Checks", "Windows Machine Checks",
                                    "URL Accessibility", "vSphere Configuration"}

\* the calls that serialize or count
ReadCalls == {"to_json", "get_summary"}

\* C19: to_json and get_summary leave the report as it was (every list, the
\* overall status, the scalar fields), return what the previous call of the
\* same kind returned when nothing happened in between, and keep the results
\* of the document in the order of the lists.
C19_SerializationReadOnly ==
    [][ret'.op \in ReadCalls =>
          /\ report' = report
          /\ ret.op = ret'.op => ret'.value = ret.value
          /\ ret'.op = "to_json" =>
                \A c \in Categories :
                    /\ Len(ret'.value[c]) = Len(report[c])
                    /\ \A i \in 1..Len(report[c]) :
                          ret'.value[c][i].status = report[c][i].status]_vars

\* a document whose results are not in sorted order: WARN before PASS
C19_Witness ==
    /\ ret.op = "to_json"
    /\ \E c \in Categories :
          /\ Len(report[c]) = 2
          /\ report[c][1].status = "WARN"
          /\ report[c][2].status = "PASS"
          /\ ret.value[c][1].status = "WARN"

\* the results of the category lists of a document whose status is in S
DocResults(doc, S) ==
    {p \in UNION {{<<c, i>> : i \in 1..Len(doc[c])} : c \in Categories} :
        doc[p[1]][p[2]].status \in S}

\* the counts read back from the category lists of a document
Recount(doc) ==
    [pass |-> Cardinality(DocResults(doc, {"PASS", "FIXED"})),
     fail |-> Cardinality(DocResults(doc, {"FAIL"})),
     warn |-> Cardinality(DocResults(doc, {"WARN"})),
     info |-> Cardinality(DocResults(doc, {"INFO"})),
     skipped |-> Cardinality(DocResults(doc, {"SKIPPED"})),
     total |-> Cardinality(UNION {{<<c, i>> : i \in 1..Len(doc[c])} : c \in Categories})]

Generated(o) == o.stdout_json # <<>> \/ o.html_file # <<>> \/ o.json_file # <<>>

\* the moves of run(): initialization, the nine steps in their order, report
\* generation, the summary, the finally clause
RunOrder ==
    {<<"initialize", "ssl">>, <<"initialize", "done">>, <<"password", "generate">>,
     <<"generate", "summary">>, <<"generate", "finally">>, <<"summary", "finally">>,
     <<"finally", "done">>} \cup
    {<<"ssl", "license">>, <<"license", "ntp">>, <<"ntp", "vm_config">>,
     <<"vm_config", "url">>, <<"url", "linux">>, <<"linux", "windows">>,
     <<"windows", "vsphere">>, <<"vsphere", "password">>}

\* C21: the steps run one at a time in the order ssl, license, ntp, vm_config,
\* url, linux, windows, vsphere, password; report generation starts only after
\* the password step has returned; a run that does not go through the whole
\* sequence ends at initialization, with no report generated.
C21_FixedSequence ==
    [][/\ pc' # pc => <<pc, pc'>> \in RunOrder
       /\ Generated(out') => pc \in {"generate", "summary", "finally", "done"}
       /\ (pc = "initialize" /\ pc' = "done") =>
             ~Generated(out') /\ ~hasReport' /\ out'.ended = "init_failed"]_vars

\* a run that went through the whole sequence and wrote its reports
C21_Witness ==
    /\ pc = "done"
    /\ out.ended = "returned"
    /\ out.html_file # <<>>
    /\ out.json_file # <<>>
    /\ report.ssl_checks # <<>>
    /\ report.password_expiration_checks # <<>>


\* ---------------------------------------------------------------------------
\* VM configuration

\* check_single_vm_configuration detects an issue on this VM
HasIssue(vm) ==
    /\ ~vm.system
    /\ \/ ~vm.uuid_keep
       \/ vm.guest = "windows" /\ ~vm.autolock_false
       \/ vm.guest = "linux" /\ ~vm.delay_ok

\* the results a list holds for target k of check_vm_configuration
VmResultsOf(results, k) ==
    {j \in 1..Len(results) : results[j].name = "VM Config: " \o TargetName(k)}

\* C22: in a run started with --report-only no VM reconfiguration is issued,
\* no result of the report is FIXED, and every VM on which an issue was
\* detected is reported FAIL.
C22_ReportOnlyFixesNothing ==
    args.report_only =>
        /\ reconfigs = 0
        /\ HeldWith(report, {"FIXED"}) = {}
        /\ (ret.op = "check_vm_configuration" /\ ~ret.value.raised) =>
              \A k \in 1..Len(ret.input) :
                  (ret.input[k].name = "ok" /\ HasIssue(ret.input[k])) =>
                      /\ VmResultsOf(ret.value.results, k) # {}
                      /\ \A j \in VmResultsOf(ret.value.results, k) :
                            ret.value.results[j].status = "FAIL"

\* a --report-only run met a VM with an issue it could have fixed, and
\* recorded FAIL for it
C22_Witness ==
    /\ args.report_only
    /\ pc = "url"
    /\ ret.op = "check_vm_configuration"
    /\ \E k \in 1..Len(ret.input) :
          /\ HasIssue(ret.input[k])
          /\ ret.input[k].fixable # {}
    /\ \E i \in 1..Len(report.vm_config_checks) :
          report.vm_config_checks[i].status = "FAIL"


\* every issue check_single_vm_configuration detects on this VM is one whose
\* reconfiguration succeeds
AllIssuesFixed(vm) ==
    /\ ~vm.uuid_keep => "uuid.action" \in vm.fixable
    /\ (vm.guest = "windows" /\ ~vm.autolock_false) =>
          "tools.guest.desktop.autolock" \in vm.fixable
    /\ (vm.guest = "linux" /\ ~vm.delay_ok) =>
          "keyboard.typematicMinDelay" \in vm.fixable

\* C23: a VM configuration result is FIXED only when every issue detected on
\* that VM was successfully fixed; if one could not be fixed it is not FIXED.
C23_FixedMeansAllFixed ==
    (ret.op = "check_vm_configuration" /\ ~ret.value.raised) =>
        \A k \in 1..Len(ret.input) :
            \A j \in VmResultsOf(ret.value.results, k) :
                ret.value.results[j].status = "FIXED" =>
                    HasIssue(ret.input[k]) /\ AllIssuesFixed(ret.input[k])


\* ---------------------------------------------------------------------------
\* Runs without a vCenter connection, and skipped categories

\* the steps that need a vCenter connection in this run
ConnectionSteps ==
    {"license", "ntp", "vm_config"} \cup
    (IF args.skip_vsphere THEN {} ELSE {"vsphere"})

\* C24: without a vCenter connection the license, NTP and VM configuration
\* steps, and the vSphere step unless --skip-vsphere is given, call no producer
\* and append exactly one SKIPPED result to their own category.
C24_NoConnectionSkips ==
    [][(IsStep /\ sis = 0 /\ pc \in ConnectionSteps) =>
          LET cat == StepCategory[pc] IN
          /\ ret'.op = "none"
          /\ Len(report'[cat]) = Len(report[cat]) + 1
          /\ SubSeq(report'[cat], 1, Len(report[cat])) = report[cat]
          /\ report'[cat][Len(report'[cat])].status = "SKIPPED"]_vars

\* a run without a connection went through the four steps
C24_Witness ==
    /\ pc = "password"
    /\ sis = 0
    /\ ~args.skip_vsphere
    /\ \A c \in {"license_checks", "ntp_checks", "vm_config_checks", "vsphere_checks"} :
          Len(report[c]) = 1 /\ report[c][1].status = "SKIPPED"


\* the categories no step of the run writes
UnusedCategories == {"vm_resource_checks", "inventory_checks"}

\* C25: in a run the vm_resource_checks and inventory_checks lists are always
\* empty, so at most nine categories hold results.
C25_UnusedCategoriesEmpty ==
    /\ \A c \in UnusedCategories : report[c] = <<>>
    /\ Cardinality({c \in Categories : report[c] # <<>>}) <= 9

\* a run ended with results in each of the nine other categories
C25_Witness ==
    /\ pc = "done"
    /\ out.ended = "returned"
    /\ \A c \in Categories \ UnusedCategories : report[c] # <<>>
    /\ \A c \in UnusedCategories : report[c] = <<>>


\* ---------------------------------------------------------------------------
\* The end of a run

\* C26: after a successful initialization run() ends, by a return or by an
\* exception, with exactly one call of _disconnect_vcenters behind it, made
\* after the steps and report generation; after a failed initialization
\* _disconnect_vcenters is not called.
C26_DisconnectOnce ==
    /\ pc # "done" => disconnects = 0
    /\ pc = "done" =>
          \/ out.ended = "init_failed" /\ ~hasReport /\ disconnects = 0
          \/ out.ended \in {"returned", "raised"} /\ hasReport /\ disconnects = 1

\* a run ended by an exception that left report generation, after one disconnect
C26_Witness ==
    /\ pc = "done"
    /\ out.ended = "raised"
    /\ hasReport
    /\ disconnects = 1


\* C27: when lsfunctions is available and its initialization fails, run()
\* returns 1 with no ValidationReport created, no step run and no report
\* printed or written.
C27_InitFailureStopsRun ==
    out.ended = "init_failed" =>
        /\ LSF_AVAILABLE
        /\ pc = "done"
        /\ out.exit_code = 1
        /\ ~hasReport
        /\ \A c \in Categories : report[c] = <<>>
        /\ ret.op = "none"
        /\ targets = 0
        /\ reconfigs = 0
        /\ ~Generated(out)
        /\ ~out.write_failed

\* lsf.init failed
C27_Witness ==
    /\ LSF_AVAILABLE
    /\ pc = "done"
    /\ out.ended = "init_failed"
    /\ out.exit_code = 1


\* the categories the command line asks to skip
SkippedCategories ==
    (IF args.skip_linux THEN {"linux_checks"} ELSE {}) \cup
    (IF args.skip_windows THEN {"windows_checks"} ELSE {}) \cup
    (IF args.skip_vsphere THEN {"vsphere_checks"} ELSE {})

\* C28: with --skip-linux, --skip-windows or --skip-vsphere the list of the
\* skipped category stays empty, without even a SKIPPED result, and the HTML
\* report has no section for it.
C28_SkippedCategoryEmpty ==
    \A c \in SkippedCategories :
        /\ report[c] = <<>>
        /\ \A d \in 1..Len(out.html_file) :
              SectionsTitled(out.html_file[d].sections, TitleOf(c)) = {}

\* a run with --skip-linux and --skip-windows ended with its HTML report
\* written and results in other categories
C28_Witness ==
    /\ pc = "done"
    /\ args.skip_linux
    /\ args.skip_windows
    /\ out.html_file # <<>>
    /\ report.linux_checks = <<>>
    /\ report.windows_checks = <<>>
    /\ report.password_expiration_checks # <<>>


\* ---------------------------------------------------------------------------
\* Password expiration and SSL certificates

\* the status the day count of an account calls for
PasswordStatusFor(account) ==
    IF account.kind = "never" THEN "PASS"
    ELSE IF account.days < 0 THEN "FAIL"
    ELSE IF account.days >= 730 THEN "PASS"
    ELSE "FAIL"

\* C29: check_single_password_expiration gives PASS when the password never
\* expires or expires in 730 days or more, FAIL when it is expired or expires
\* in fewer than 730 days, and WARN for no day count.
C29_PasswordStatusByDays ==
    (ret.op = "check_password_expirations" /\ ~ret.value.raised) =>
        \A k \in 1..Len(ret.input) :
            \A j \in PasswordResultsOf(ret.value.results, k, ret.input[k].kind) :
                /\ ret.value.results[j].status # "WARN"
                /\ ret.input[k].account.kind \in {"never", "days"} =>
                      ret.value.results[j].status = PasswordStatusFor(ret.input[k].account)

\* an account that expires between the two configured thresholds is PASS
C29_Witness ==
    /\ ret.op = "check_password_expirations"
    /\ \E k \in 1..Len(ret.input) :
          /\ ret.input[k].account.kind = "days"
          /\ ret.input[k].account.days >= PASSWORD_EXPIRE_WARN_DAYS
          /\ ret.input[k].account.days < PASSWORD_EXPIRE_PASS_DAYS
          /\ \E j \in PasswordResultsOf(ret.value.results, k, ret.input[k].kind) :
                ret.value.results[j].status = "PASS"


\* the host:port pair of a URL
HostKey(url) ==
    get_ssl_host_from_url(url).name \o ":" \o ToString(get_ssl_host_from_url(url).port)

\* the URLs check_ssl_certificates looks at: https, and not skipped for the proxy
EligibleUrls(urls, lsf) ==
    {i \in 1..Len(urls) : urls[i].scheme = "https" /\ ~(lsf /\ urls[i].proxy)}

\* the first occurrence of each host:port pair among them
FirstOccurrences(urls, lsf) ==
    {i \in EligibleUrls(urls, lsf) :
        \A j \in EligibleUrls(urls, lsf) : j < i => HostKey(urls[j]) # HostKey(urls[i])}

\* the n-th of a set of indices
Nth(S, n) == CHOOSE i \in S : Cardinality({j \in S : j <= i}) = n

\* C30: check_ssl_certificates returns one result per distinct host:port pair
\* of the https URLs the proxy check lets through, in the order of the first
\* occurrence of each pair, and nothing for the other URLs.
C30_OneResultPerHostPort ==
    (ret.op = "check_ssl_certificates" /\ ~ret.value.raised /\ ret.input.SSL_AVAILABLE) =>
        LET first == FirstOccurrences(ret.input.urls, ret.input.lsf)
            results == ret.value.results
        IN /\ Len(results) = Cardinality(first)
           /\ \A n \in 1..Len(results) :
                 results[n].name = "SSL: " \o HostKey(ret.input.urls[Nth(first, n)])
           /\ \A n \in 1..Len(results), k \in 1..Len(results) :
                 n # k => results[n].name # results[k].name

\* two URLs of the same host and port, one with the port written out, gave one
\* result
C30_Witness ==
    /\ ret.op = "check_ssl_certificates"
    /\ ret.input.SSL_AVAILABLE
    /\ Len(ret.input.urls) = 2
    /\ ret.input.urls[1].port # ret.input.urls[2].port
    /\ Cardinality(EligibleUrls(ret.input.urls, ret.input.lsf)) = 2
    /\ Len(ret.value.results) = 1
    /\ ~ret.value.raised

====
